---- MODULE Spec2Model ----
(***************************************************************************)
(* Nano-deb-Installer: the install / uninstall wizards (wizards.py), the   *)
(* background WorkerThread (utils.py) and the persisted credential store   *)
(* (settings.py), as state machines.                                       *)
(*                                                                         *)
(* Spec     : one wizard instance (install or uninstall) with its workers  *)
(*            and the privileged helper processes they start.              *)
(* SpecTask : one WorkerThread driven by an arbitrary worker function and  *)
(*            a caller that may call stop().                               *)
(***************************************************************************)
EXTENDS Integers, Sequences, FiniteSets, TLC

\* ---------------------------------------------------------------- bounds
MaxLines == 2
MaxOrphans == 1
MaxProgress == 2
MaxCount == 3
MaxScript == 3
MaxEntries == 1
MaxBlocks == 2
MaxLoads == 2

\* ------------------------------------------------------- program constants
\* InstallWizard page ids (setPage) and UninstallWizard page ids (addPage order)
InstallScanPage == 1
InstallInfoPage == 2
InstallReadyPage == 3
InstallExtractPage == 4
InstallProgressPage == 5
InstallSuccessPage == 6
UninstallConfirmPage == 0
UninstallProgressPage == 1
UninstallCleanupPage == 2
UninstallSuccessPage == 3
NoPage == -1

SIGTERM == 15
SIGKILL == 9
ExceptionRc == -1
TerminatedRc == -15

backend_error_prefix == "[NANO_BACKEND_ERROR]"
password_error_phrases ==
    {"sorry, try again", "authentication failed", "incorrect password", "incorrect authentication"}

\* ------------------------------------------------------------------ text
\* A text is a sequence of chunks; LF is the line terminator readline() keeps.
LF == "<LF>"

\* str.lower() on the chunks that occur in helper output
Lower(c) ==
    CASE c = "Sorry, try again" -> "sorry, try again"
      [] c = "Authentication failed" -> "authentication failed"
      [] c = "E: " -> "e: "
      [] c = "Bash" -> "bash"
      [] c = "LIBC6" -> "libc6"
      [] c = "Linux-Image" -> "linux-image"
      [] OTHER -> c

LowerText(t) == [i \in DOMAIN t |-> Lower(t[i])]

FirstLF(t) ==
    IF \E i \in DOMAIN t : t[i] = LF
    THEN CHOOSE i \in DOMAIN t : t[i] = LF /\ \A j \in 1..(i - 1) : t[j] # LF
    ELSE 0

\* str.splitlines(): split at the terminators, no empty last line
RECURSIVE splitlines(_)
splitlines(t) ==
    IF t = <<>> THEN <<>>
    ELSE LET k == FirstLF(t) IN
         IF k = 0 THEN <<t>>
         ELSE <<SubSeq(t, 1, k - 1)>> \o splitlines(SubSeq(t, k + 1, Len(t)))

startswith(line, prefix) == Len(line) >= 1 /\ line[1] = prefix

\* a is the beginning of b
IsPrefix(a, b) == Len(a) <= Len(b) /\ \A i \in DOMAIN a : a[i] = b[i]

\* next((line for line in output.splitlines() if line.startswith(prefix)), None)
has_backend_error_line(output) ==
    \E i \in DOMAIN splitlines(output) : startswith(splitlines(output)[i], backend_error_prefix)

\* the same test without output.lower()
is_password_error_case_sensitive(rc, output) ==
    rc # 0 /\ \E ph \in password_error_phrases : \E i \in DOMAIN output : output[i] = ph

\* rc != 0 and any(phrase in output.lower() for phrase in password_error_phrases)
is_password_error(rc, output) ==
    rc # 0 /\ \E ph \in password_error_phrases :
                 \E i \in DOMAIN output : LowerText(output)[i] = ph

\* ------------------------------------------------------ helper environment
Passwords == {"good", "bad"}
CorrectPassword == "good"

\* lines sudo prints when it rejects the password read from stdin
SudoRejectLines ==
    { <<"[sudo] password: ", "Sorry, try again", ".", LF>>,
      <<"sudo: 1 ", "incorrect password", " attempt", LF>> }

\* lines the backend can print once sudo accepted the password
BackendLines ==
    { <<backend_error_prefix, "msg", LF>>,
      <<"txt", backend_error_prefix, LF>>,
      <<"E: ", "Authentication failed", LF>>,
      <<"txt", LF>> }

HelperExitCodes == {0, 1}

\* lines a helper given password pw can print as its (n+1)-th line
HelperLines(pw, n) ==
    IF pw = CorrectPassword THEN BackendLines
    ELSE IF n = 0 THEN SudoRejectLines ELSE {}

\* the helper may close its output after n lines
HelperMayEnd(pw, n) == pw = CorrectPassword \/ n >= 1

HelperExit(pw) == IF pw = CorrectPassword THEN HelperExitCodes ELSE {1}

ExceptionText == <<"errmsg">>

\* ----------------------------------------------------------- scan reports
\* A scan report is represented by the set of keywords that occur in its text
ScanKeywords == {"DANGER!", "SUSPICIOUS", "Clean", "UNKNOWN"}
ScanReports == SUBSET ScanKeywords

\* =========================================================== wizard state
VARIABLES
    kind,                 \* "install" (InstallWizard) or "uninstall" (UninstallWizard)
    is_extract_mode,      \* InstallWizard.is_extract_mode
    is_create_shortcut_mode,
    page,                 \* QWizard.currentId()
    shown,                \* exec_() has shown the wizard
    summary_loaded,       \* _summary_loaded
    scan_finished,        \* _scan_finished
    scan_status,          \* _scan_status ("none" for None)
    force_checked,        \* cb_force_install.isChecked()
    force_visible,        \* cb_force_install.isVisible()
    result_visible,       \* scan_result_text.isVisible()
    extract_path_set,     \* extract_path_edit holds a directory
    back_enabled,         \* button(BackButton) usable
    next_enabled,         \* button(NextButton) usable
    saved_password,       \* QSettings "sudo_password" ("none" when absent)
    auto_enabled,         \* QSettings "auto_password_enabled" == "true"
    used_saved_password,  \* _used_saved_password
    dialog,               \* open AuthenticationDialog: "none", "auth", "auth_retry"
    summary_worker,       \* _summary_worker thread: "idle", "running", "finished"
    scan_worker,          \* _scan_thread: "idle", "running", "finished"
    worker,               \* _worker_thread and the worker function's position
    mainQ,                \* signals queued for the GUI thread, in emission order
    progress,             \* self.progress.value(); -1 is a QProgressBar never set
    found_leftover_files, \* UninstallWizard.found_leftover_files is non-empty
    crashed,              \* a slot raised an exception that nothing catches
    orphans,              \* helper processes left running by a worker that returned
    \* --- observation (history) variables
    last_result,          \* <<result>> of the latest done(result), <<>> once a new worker starts
    last_class,           \* branches of done() taken for last_result
    last_acts,            \* UI calls done() made for last_result
    shortcut_created,     \* _create_desktop_shortcut was called
    extracted,            \* the dpkg-deb -x step was started
    cred_rejected,        \* sudo rejected the credential the worker holds
    wrote_rejected,       \* a rejected credential was written to a further helper's stdin
    after_saved_reject    \* the latest attempt is a retry after the saved credential was rejected

wizvars == <<kind, is_extract_mode, is_create_shortcut_mode, page, shown, summary_loaded,
             scan_finished, scan_status, force_checked, force_visible, result_visible,
             extract_path_set, back_enabled, next_enabled, saved_password, auto_enabled,
             used_saved_password, dialog, summary_worker, scan_worker, worker, mainQ,
             progress, found_leftover_files, crashed, orphans, last_result, last_class,
             last_acts, shortcut_created, extracted, cred_rejected, wrote_rejected,
             after_saved_reject>>

\* ======================================================= WorkerThread state
VARIABLES
    t_thread,        \* QThread: "created", "running" (fn executing), "fn_done", "finished"
    t_is_running,    \* WorkerThread._is_running
    t_connected,     \* signals the caller has connected
    t_outcome,       \* how fn ended: [kind |-> "none" | "return" | "raise", val |-> ...]
    t_proc,          \* the subprocess fn launched: "none", "alive", "exited"
    t_registered,    \* fn passed it to set_process (self._process is set)
    t_q,             \* signals queued for the caller's thread, in emission order
    t_emitted,       \* progress values fn has emitted, in order
    t_result_emits,  \* values run() has emitted on the result signal
    t_recv,          \* progress values the caller's slot has received
    t_results,       \* result values the caller's slot has received
    t_stop,          \* position inside stop(): "idle", "killpg", "proc_wait", "kill9",
                     \*   "wait", "returned"
    t_sigs,          \* signals stop() has sent to the process group
    t_stop_requested,\* stop_requested was emitted
    t_unhandled,     \* an exception escaped run()
    \* --- observation (history) variables
    t_stop_after_delivery, \* stop() was called after the result had been delivered
    t_late_activity  \* fn ran or a signal was emitted after stop() had returned

taskvars == <<t_thread, t_is_running, t_connected, t_outcome, t_proc, t_registered, t_q,
              t_emitted, t_result_emits, t_recv, t_results, t_stop, t_sigs,
              t_stop_requested, t_unhandled, t_stop_after_delivery, t_late_activity>>

TaskInit ==
    /\ t_thread = "created"
    /\ t_is_running = TRUE
    /\ t_connected = {}
    /\ t_outcome = [kind |-> "none", val |-> "none"]
    /\ t_proc = "none"
    /\ t_registered = FALSE
    /\ t_q = <<>>
    /\ t_emitted = <<>>
    /\ t_result_emits = <<>>
    /\ t_recv = <<>>
    /\ t_results = <<>>
    /\ t_stop = "idle"
    /\ t_sigs = <<>>
    /\ t_stop_requested = FALSE
    /\ t_unhandled = FALSE
    /\ t_stop_after_delivery = FALSE
    /\ t_late_activity = FALSE

\* ================================================== stop(): the grace period
VARIABLES
    t_timed_out      \* _process.wait(timeout=5) ran out with the subprocess still alive

escvars == <<t_timed_out>>

\* ============================== the install worker function under stop()
VARIABLES
    c_pc,            \* install(): "start", "check", "readline", "wait", "done"
    c_helper,        \* the sudo helper it launched: "none", "alive", "exited"
    c_endless,       \* the helper's command does not end by itself
    c_pgid,          \* the process group the helper runs in
    c_rc,            \* proc.returncode
    c_pipe,          \* lines the helper has written and install() has not read
    c_printed,       \* number of lines the helper has written
    c_out,           \* output_lines, joined
    c_sent,          \* signals install() has sent: [sig, to], to is "child" or "group"
    c_class          \* the branch done() took for the result

cancelvars == <<c_pc, c_helper, c_endless, c_pgid, c_rc, c_pipe, c_printed, c_out, c_sent, c_class>>

CancelInit ==
    /\ c_pc = "start"
    /\ c_helper = "none"
    /\ c_endless = FALSE
    /\ c_pgid = "none"
    /\ c_rc = 0
    /\ c_pipe = <<>>
    /\ c_printed = 0
    /\ c_out = <<>>
    /\ c_sent = <<>>
    /\ c_class = {}

\* ============================================= scan_with_virustotal state
VARIABLES
    s_pc,            \* "idle", "lookup", "offline", "returned", "raised", "done"
    s_name,          \* file_path.name, as chunks
    s_lookup,        \* what requests.get did: a response with a status code, or an error
    s_body,          \* what report_res.json() found: "report", "not_json", "no_data"
    s_stats,         \* last_analysis_stats of a found report
    s_offline_calls, \* number of calls of scan_offline
    s_extract,       \* dpkg-deb -R in scan_offline: "none", "ok", "failed"
    s_script,        \* content of a maintainer script, as chunks
    s_findings,      \* commands of SUSPICIOUS_COMMANDS reported for the script
    s_tree,          \* entries of the extracted tree that rglob('*') yields
    s_walk,          \* findings of the analysis of paths and permissions
    s_is_running,    \* _is_running of the scan's WorkerThread
    s_left,          \* 4K blocks of the file not yet read
    s_result         \* the value scan_with_virustotal returned, or the exception raised

scanfnvars == <<s_pc, s_name, s_lookup, s_body, s_stats, s_offline_calls, s_extract,
                s_script, s_findings, s_tree, s_walk, s_is_running, s_left, s_result>>

NoStats == [malicious |-> 0, suspicious |-> 0, harmless |-> 0, undetected |-> 0]
NoLookup == [kind |-> "none", code |-> 0]
NoReport == [exc |-> FALSE, text |-> <<>>, num |-> 0, den |-> 0]

ScanInit ==
    /\ s_pc = "idle"
    /\ s_name = <<>>
    /\ s_lookup = NoLookup
    /\ s_body = "none"
    /\ s_stats = NoStats
    /\ s_offline_calls = 0
    /\ s_extract = "none"
    /\ s_script = <<>>
    /\ s_findings = {}
    /\ s_tree = {}
    /\ s_walk = {}
    /\ s_is_running = TRUE
    /\ s_left = 0
    /\ s_result = NoReport

\* ================================ InstallWizard: threads of the first page
VARIABLES
    summary_starts,  \* calls of load_summary
    scan_starts,     \* calls of do_scan
    stale_summary,   \* get_info threads still running that _summary_worker no longer names
    stale_scan       \* scan threads still running that _scan_thread no longer names

prepvars == <<summary_starts, scan_starts, stale_summary, stale_scan>>

\* ============================== two wizards and the one credential store
VARIABLES
    sh_store,        \* QSettings: sudo_password and auto_password_enabled
    sh_pc,           \* per wizard: "idle", "prompt", "running", "result", "finished"
    sh_password,     \* per wizard: the password given to its worker
    sh_used_saved,   \* per wizard: _used_saved_password
    sh_rc,           \* per wizard: what its helper did with the password
    sh_submitted     \* wizards that started a helper with a saved password sudo rejects

sharedvars == <<sh_store, sh_pc, sh_password, sh_used_saved, sh_rc, sh_submitted>>

Instances == {1, 2}

\* ======================================== main.py: the two entry points
VARIABLES
    m_pc,         \* "start", "ask_update", "ask_same", "ask_rollback", "done"
    m_entry,      \* "none", "file" (process_deb_file), "option" (--uninstall PACKAGE)
    m_pkg,        \* the package name
    m_box,        \* message box shown: "none", "warning", "critical"
    m_wizard      \* wizard created and run with exec_(): "none", "install", "uninstall"

entryvars == <<m_pc, m_entry, m_pkg, m_box, m_wizard>>

\* ================== the worker functions with the running flag cleared
VARIABLES
    u_pc,          \* install()/uninstall(): "start", "check", "readline", "wait",
                   \* "cleanup", "leftovers", "done"
    u_stage,       \* 1: the install/purge helper, 2: the autoremove helper
    u_is_running,  \* worker.is_running()
    u_proc,        \* the helper of the stage: "none", "alive", "exited"
    u_signalled,   \* terminate() was called on the helper of the stage
    u_returncode,  \* proc.returncode of the first helper
    u_reads,       \* readline() calls so far
    u_launches,    \* sudo helpers launched so far
    u_writes,      \* helpers whose stdin received the password
    u_observed,    \* a read loop has found is_running() false
    u_searched     \* the leftover search ran

stopvars == <<u_pc, u_stage, u_is_running, u_proc, u_signalled, u_returncode, u_reads,
              u_launches, u_writes, u_observed, u_searched>>

\* =================== scan_offline and its temporary extraction directory
VARIABLES
    o_pc,        \* "idle", "extract", "analyze", "finally", "format", "returned", "raised"
    o_calls,     \* calls of scan_offline so far
    o_name,      \* file_path.name, as chunks
    o_temp_dir,  \* the name tempfile.mkdtemp returned to this call; 0 before it did
    o_tmp,       \* the nano-installer-scan-* directories that exist
    o_made,      \* the directories the calls created
    o_pending,   \* how the try block was left: "none", "return", "raise", "fall"
    o_n,         \* len(findings)
    o_result     \* the value returned, or the exception raised

offvars == <<o_pc, o_calls, o_name, o_temp_dir, o_tmp, o_made, o_pending, o_n, o_result>>

\* ============================================ self_update.check_for_updates
VARIABLES
    su_pc,        \* "idle", "compare", "ask", "request", "chunks", "verify", "install",
                  \* "done", "raised", "quit"
    su_checks,    \* calls of check_for_updates so far
    su_current,   \* current_version
    su_latest,    \* latest_version; "" for None
    su_left,      \* chunks that response.iter_content has still to yield
    su_canceled,  \* progress_dialog.wasCanceled()
    su_deb_path,  \* deb_path is a path, not None
    su_verify,    \* what check_call(['gpg', '--verify', deb_path]) did: "none",
                  \* "returned", "CalledProcessError", "FileNotFoundError"
    su_gpg,       \* the run of gpg: whether the program was found, its exit status
    su_log,       \* what this call of check_for_updates has gone through, in order
    su_launched,  \* QProcess.startDetached ran "pkexec dpkg -i <deb_path>"
    su_box        \* the message box shown last

updvars == <<su_pc, su_checks, su_current, su_latest, su_left, su_canceled, su_deb_path,
             su_verify, su_gpg, su_log, su_launched, su_box>>

latevars == <<entryvars, stopvars, offvars, updvars>>

extvars == <<escvars, cancelvars, scanfnvars, prepvars, sharedvars, latevars>>

NoGpg == [found |-> FALSE, rc |-> 0]

ExtInit ==
    /\ t_timed_out = FALSE
    /\ CancelInit
    /\ ScanInit
    /\ summary_starts = 0
    /\ scan_starts = 0
    /\ stale_summary = 0
    /\ stale_scan = 0
    /\ sh_store = [password |-> "none", auto |-> FALSE]
    /\ sh_pc = [i \in Instances |-> "idle"]
    /\ sh_password = [i \in Instances |-> "none"]
    /\ sh_used_saved = [i \in Instances |-> FALSE]
    /\ sh_rc = [i \in Instances |-> "none"]
    /\ sh_submitted = {}
    /\ m_pc = "start"
    /\ m_entry = "none"
    /\ m_pkg = <<>>
    /\ m_box = "none"
    /\ m_wizard = "none"
    /\ u_pc = "start"
    /\ u_stage = 1
    /\ u_is_running = TRUE
    /\ u_proc = "none"
    /\ u_signalled = FALSE
    /\ u_returncode = 0
    /\ u_reads = 0
    /\ u_launches = 0
    /\ u_writes = 0
    /\ u_observed = FALSE
    /\ u_searched = FALSE
    /\ o_pc = "idle"
    /\ o_calls = 0
    /\ o_name = <<>>
    /\ o_temp_dir = 0
    /\ o_tmp = {}
    /\ o_made = {}
    /\ o_pending = "none"
    /\ o_n = 0
    /\ o_result = NoReport
    /\ su_pc = "idle"
    /\ su_checks = 0
    /\ su_current = ""
    /\ su_latest = ""
    /\ su_left = 0
    /\ su_canceled = FALSE
    /\ su_deb_path = FALSE
    /\ su_verify = "none"
    /\ su_gpg = NoGpg
    /\ su_log = <<>>
    /\ su_launched = FALSE
    /\ su_box = "none"

configvars == <<kind, is_extract_mode, is_create_shortcut_mode>>
scanvars == <<summary_loaded, scan_finished, scan_status, force_checked, force_visible,
              result_visible, summary_worker, scan_worker>>
storevars == <<saved_password, auto_enabled>>
outcomevars == <<last_result, last_class, last_acts, shortcut_created, extracted,
                 found_leftover_files, crashed, after_saved_reject>>

IdleWorker ==
    [st |-> "idle", pc |-> "start", password |-> "none", out |-> <<>>,
     n |-> 0, pn |-> 0, proc |-> "none", purge_rc |-> 0]

ProgressPage == IF kind = "install" THEN InstallProgressPage ELSE UninstallProgressPage
StartPage == IF kind = "install" THEN InstallScanPage ELSE UninstallConfirmPage
FinalPage == IF kind = "install" THEN InstallSuccessPage ELSE UninstallSuccessPage

\* InstallWizard.is_p1_complete
is_p1_complete_force_ignored(finished, status, force) ==
    finished /\ status \in {"clean", "danger", "suspicious", "error"}

is_p1_complete(finished, status, force) ==
    IF ~finished THEN FALSE
    ELSE IF status = "clean" THEN TRUE
    ELSE IF status \in {"danger", "suspicious", "error"} THEN force
    ELSE FALSE

\* QWizardPage.isComplete() of page p, with the two overrides the wizard installs
IsComplete(p, finished, status, force, pathset) ==
    IF kind = "install" /\ p = InstallScanPage THEN is_p1_complete(finished, status, force)
    ELSE IF kind = "install" /\ p = InstallExtractPage THEN pathset
    ELSE TRUE

\* InstallWizard.nextId / UninstallWizard.nextId (super().nextId() is the next id)
nextId(p, leftover) ==
    IF kind = "install"
    THEN IF p = InstallReadyPage
         THEN (IF is_extract_mode THEN InstallExtractPage ELSE InstallProgressPage)
         ELSE IF p = InstallExtractPage THEN InstallProgressPage
         ELSE IF p = InstallSuccessPage THEN NoPage
         ELSE p + 1
    ELSE IF p = UninstallProgressPage
         THEN (IF leftover THEN UninstallCleanupPage ELSE UninstallSuccessPage)
         ELSE IF p = UninstallCleanupPage THEN UninstallSuccessPage
         ELSE IF p = UninstallSuccessPage THEN NoPage
         ELSE p + 1

\* the page QWizard.back() returns to (the previous entry of the page history)
PrevPage(p) ==
    IF kind = "install"
    THEN IF p = InstallProgressPage
         THEN (IF is_extract_mode THEN InstallExtractPage ELSE InstallReadyPage)
         ELSE p - 1
    ELSE p - 1

\* InstallWizard.do_scan.on_done: the status a report string is given
ReportStatus(report) ==
    IF "DANGER!" \in report THEN "danger"
    ELSE IF "SUSPICIOUS" \in report THEN "suspicious"
    ELSE IF "Clean" \in report THEN "clean"
    ELSE "error"

\* done(): the branch of the if/elif chain taken for (rc, output)
done_class_no_marker_check(rc, output) ==
    IF rc = 0 THEN {"success"}
    ELSE IF is_password_error(rc, output) THEN {"retry"}
    ELSE {"generic"}

\* the chain with the final else branch asking for the password again
done_class_generic_retries(rc, output) ==
    IF has_backend_error_line(output) THEN {"backend"}
    ELSE IF rc = 0 THEN {"success"}
    ELSE {"retry"}

\* the chain with "if rc <= 0" for "if rc == 0"
done_class_negative_rc_is_success(rc, output) ==
    IF has_backend_error_line(output) THEN {"backend"}
    ELSE IF rc <= 0 THEN {"success"}
    ELSE IF is_password_error(rc, output) THEN {"retry"}
    ELSE {"generic"}

done_class(rc, output) ==
    IF has_backend_error_line(output) THEN {"backend"}
    ELSE IF rc = 0 THEN {"success"}
    ELSE IF is_password_error(rc, output) THEN {"retry"}
    ELSE {"generic"}

\* the wizard after __init__
InitWizard ==
    /\ kind \in {"install", "uninstall"}
    /\ is_extract_mode \in (IF kind = "install" THEN BOOLEAN ELSE {FALSE})
    /\ is_create_shortcut_mode \in (IF kind = "install" THEN BOOLEAN ELSE {FALSE})
    /\ page = StartPage
    /\ shown = FALSE
    /\ summary_loaded = FALSE
    /\ scan_finished = FALSE
    /\ scan_status = "none"
    /\ force_checked = FALSE
    /\ force_visible = FALSE
    /\ result_visible = FALSE
    /\ extract_path_set = FALSE
    /\ back_enabled = FALSE
    /\ next_enabled = FALSE
    /\ used_saved_password = FALSE
    /\ dialog = "none"
    /\ summary_worker = "idle"
    /\ scan_worker = "idle"
    /\ worker = IdleWorker
    /\ mainQ = <<>>
    /\ progress = -1
    /\ found_leftover_files = FALSE
    /\ crashed = FALSE
    /\ orphans = 0
    /\ last_result = <<>>
    /\ last_class = {}
    /\ last_acts = {}
    /\ shortcut_created = FALSE
    /\ extracted = FALSE
    /\ cred_rejected = FALSE
    /\ wrote_rejected = FALSE
    /\ after_saved_reject = FALSE
    /\ TaskInit
    /\ ExtInit

\* the settings file as save_password and on_auto_password_clicked leave it
Init ==
    /\ InitWizard
    /\ saved_password \in {"none"} \cup Passwords
    /\ auto_enabled \in BOOLEAN

\* ============================================================ Qt plumbing
Ev(src, type, p) == [src |-> src, type |-> type, p |-> p]

HeadIs(src, types) ==
    /\ mainQ # <<>>
    /\ Head(mainQ).src = src
    /\ Head(mainQ).type \in types

\* QWizard._q_updateButtonStates after a switch to page p; the wizards'
\* on_page_changed hides Back on the final page
SwitchTo(p) ==
    /\ page' = p
    /\ back_enabled' = (p # StartPage /\ p # FinalPage)
    /\ next_enabled' = (p # FinalPage
                        /\ IsComplete(p, scan_finished, scan_status, force_checked, extract_path_set))

UserCanAct == shown /\ ~crashed /\ dialog = "none"

\* =================================================== BaseOperationWizard
\* _start_worker_thread(password, used_saved_password)
StartWorker(pw, used) ==
    /\ used_saved_password' = used
    /\ worker' = [IdleWorker EXCEPT !.st = "running", !.password = pw]
    /\ last_result' = <<>>
    /\ last_class' = {}
    /\ last_acts' = {}
    /\ cred_rejected' = FALSE

\* a "sudo_password" value that Fernet cannot decrypt with the stored key
Garbled == "garbled"

\* get_password read as "any stored value decrypts"
get_password_no_token_check(stored) == stored

\* SettingsManager.get_password: None ("none") when nothing is stored or
\* when decrypt raises InvalidToken
get_password(stored) == IF stored \in Passwords THEN stored ELSE "none"

\* _execute_operation, entered from on_page_changed when the progress page opens
ExecuteOperation ==
    /\ page' = ProgressPage
    /\ back_enabled' = FALSE
    /\ next_enabled' = FALSE
    /\ progress' = 5
    /\ after_saved_reject' = FALSE
    /\ LET password == IF auto_enabled THEN get_password(saved_password) ELSE "none"
       IN IF password # "none"
          THEN /\ StartWorker(password, TRUE)
               /\ dialog' = "none"
          ELSE /\ dialog' = "auth"
               /\ UNCHANGED <<used_saved_password, worker, last_result, last_class, last_acts,
                              cred_rejected>>
    \* get_password removes a value it cannot decrypt
    /\ saved_password' = IF auto_enabled /\ saved_password = Garbled THEN "none"
                         ELSE saved_password
    /\ UNCHANGED <<extvars, taskvars, configvars, shown, scanvars, extract_path_set, auto_enabled, mainQ,
                   found_leftover_files, crashed, orphans, shortcut_created, extracted,
                   wrote_rejected>>

\* a plain page switch that starts nothing
PlainSwitch(p) ==
    /\ SwitchTo(p)
    /\ UNCHANGED <<extvars, taskvars, configvars, shown, scanvars, extract_path_set, storevars,
                   used_saved_password, dialog, worker, mainQ, progress, orphans,
                   outcomevars, cred_rejected, wrote_rejected>>

\* the user presses Next
UserNext ==
    /\ UserCanAct
    /\ next_enabled
    /\ nextId(page, found_leftover_files) # NoPage
    /\ IF nextId(page, found_leftover_files) = ProgressPage
       THEN ExecuteOperation
       ELSE PlainSwitch(nextId(page, found_leftover_files))

\* the user presses Back
UserBack ==
    /\ UserCanAct
    /\ back_enabled
    /\ IF PrevPage(page) = ProgressPage
       THEN ExecuteOperation
       ELSE PlainSwitch(PrevPage(page))

\* _ask_password_and_execute: "if not password: self.back(); return"
prompt_starts_worker_always(pw) == TRUE

prompt_starts_worker(pw) == pw # "none"

\* _ask_password_and_execute: the AuthenticationDialog is answered
PromptAnswer ==
    /\ dialog \in {"auth", "auth_retry"}
    /\ ~crashed
    /\ \E pw \in Passwords \cup {"none"} :
          IF ~prompt_starts_worker(pw)
          THEN /\ dialog' = "none"
               /\ SwitchTo(PrevPage(page))
               /\ UNCHANGED <<used_saved_password, worker, last_result, last_class,
                              last_acts, cred_rejected>>
          ELSE /\ dialog' = "none"
               /\ StartWorker(pw, FALSE)
               /\ UNCHANGED <<page, back_enabled, next_enabled>>
    /\ UNCHANGED <<extvars, taskvars, configvars, shown, scanvars, extract_path_set, storevars, mainQ, progress,
                   found_leftover_files, crashed, orphans, shortcut_created, extracted,
                   wrote_rejected, after_saved_reject>>

\* ========================================================= InstallWizard
\* str.split(sep)
RECURSIVE split(_, _)
split(t, sep) ==
    IF \E i \in DOMAIN t : t[i] = sep
    THEN LET k == CHOOSE i \in DOMAIN t : t[i] = sep /\ \A j \in 1..(i - 1) : t[j] # sep
         IN <<SubSeq(t, 1, k - 1)>> \o split(SubSeq(t, k + 1, Len(t)), sep)
    ELSE <<t>>

\* values of the Depends field of the control file ("" when there is none)
DependsFields ==
    { <<>>, <<",">>, <<"libc6">>, <<"libc6", ",", "foo", "|", "bar">>, <<"${shlibs:Depends}">> }

\* parse_dependencies: a list of groups, a group the list of alternatives
\* whose text matches ^\s*([a-zA-Z0-9.+-]+)\s*(\(.*\))?\s*$
parse_dependencies(depends_string) ==
    LET names == {"libc6", "foo", "bar"}
        alternatives(entry) ==
            SelectSeq(split(entry, "|"), LAMBDA a : Len(a) = 1 /\ a[1] \in names)
        entries == split(depends_string, ",")
        groups == [i \in DOMAIN entries |-> alternatives(entries[i])]
    IN IF depends_string = <<>> THEN <<>>
       ELSE SelectSeq(groups, LAMBDA g : g # <<>>)

\* what get_info returns: an exception, or the dict with the control fields
Infos == [exc : {TRUE}, depends : {<<>>}] \cup [exc : {FALSE}, depends : DependsFields]

\* exec_() shows the wizard; InstallWizard.setVisible(True) calls
\* load_summary unless _summary_loaded; a get_info thread that is still
\* running when _summary_worker is assigned again runs on, or the process
\* aborts when its QThread is destroyed
Show ==
    /\ ~shown
    /\ ~crashed
    /\ shown' = TRUE
    /\ IF kind = "install" /\ summary_starts > 0
       THEN UNCHANGED next_enabled    \* QWizard.setVisible restarts only without a current page
       ELSE next_enabled' = IsComplete(page, scan_finished, scan_status, force_checked,
                                       extract_path_set)
    /\ IF kind = "install" /\ ~summary_loaded
       THEN /\ summary_starts < MaxLoads
            /\ summary_starts' = summary_starts + 1
            /\ summary_worker' = "running"
            /\ \/ /\ stale_summary' = stale_summary
                                        + (IF summary_worker = "running" THEN 1 ELSE 0)
                  /\ UNCHANGED crashed
               \/ /\ summary_worker = "running"
                  /\ crashed' = TRUE
                  /\ UNCHANGED stale_summary
       ELSE UNCHANGED <<summary_worker, summary_starts, stale_summary, crashed>>
    /\ UNCHANGED <<escvars, cancelvars, scanfnvars, sharedvars, latevars, scan_starts, stale_scan, taskvars,
                   configvars, page, summary_loaded, scan_finished, scan_status,
                   force_checked, force_visible, result_visible, scan_worker,
                   extract_path_set, back_enabled, storevars, used_saved_password, dialog,
                   worker, mainQ, progress, orphans, last_result, last_class, last_acts,
                   shortcut_created, extracted, found_leftover_files, after_saved_reject,
                   cred_rejected, wrote_rejected>>

\* InstallWizard.setVisible(False)
Hide ==
    /\ shown
    /\ ~crashed
    /\ dialog = "none"
    /\ shown' = FALSE
    /\ UNCHANGED <<extvars, taskvars, configvars, page, summary_loaded, scan_finished,
                   scan_status, force_checked, force_visible, result_visible,
                   summary_worker, scan_worker, extract_path_set, back_enabled,
                   next_enabled, storevars, used_saved_password, dialog, worker, mainQ,
                   progress, orphans, outcomevars, cred_rejected, wrote_rejected>>

\* load_summary.get_info in its WorkerThread: a dict, or an exception
SummaryWorkerRun ==
    /\ summary_worker = "running"
    /\ \E r \in Infos : mainQ' = Append(mainQ, Ev("summary", "result", r))
    /\ summary_worker' = "finished"
    /\ UNCHANGED <<extvars, taskvars, configvars, page, shown, summary_loaded, scan_finished, scan_status,
                   force_checked, force_visible, result_visible, scan_worker,
                   extract_path_set, back_enabled, next_enabled, storevars,
                   used_saved_password, dialog, worker, progress, orphans, outcomevars,
                   cred_rejected, wrote_rejected>>

\* get_info in a WorkerThread that _summary_worker no longer names
StaleSummaryRun ==
    /\ stale_summary > 0
    /\ ~crashed
    /\ stale_summary' = stale_summary - 1
    /\ \E r \in Infos : mainQ' = Append(mainQ, Ev("summary", "result", r))
    /\ UNCHANGED <<escvars, cancelvars, scanfnvars, sharedvars, latevars, summary_starts, scan_starts, stale_scan,
                   taskvars, configvars, page, shown, scanvars, extract_path_set,
                   back_enabled, next_enabled, storevars, used_saved_password, dialog,
                   worker, progress, orphans, outcomevars, cred_rejected, wrote_rejected>>

\* handle_scan_finished for status st, then p1.completeChanged
HandleScanFinished(st) ==
    /\ result_visible' = (st # "clean")
    /\ force_visible' = (st # "clean")
    /\ next_enabled' = IsComplete(page, TRUE, st, force_checked, extract_path_set)
    /\ back_enabled' = (page # StartPage /\ page # FinalPage)

\* load_summary.on_info_loaded: dep_info['name'] indexes a group, which is a
\* list, and raises TypeError for the first group of a Depends field
OnInfoLoaded ==
    /\ HeadIs("summary", {"result"})
    /\ ~crashed
    /\ mainQ' = Tail(mainQ)
    /\ LET info == Head(mainQ).p IN
       IF info.exc
       THEN /\ summary_loaded' = TRUE
            /\ scan_finished' = TRUE
            /\ scan_status' = "error"
            /\ HandleScanFinished("error")
            /\ UNCHANGED <<scan_worker, scan_starts, stale_scan, crashed>>
       ELSE IF info.depends # <<>> /\ parse_dependencies(info.depends) # <<>>
       THEN /\ crashed' = TRUE
            /\ UNCHANGED <<summary_loaded, scan_finished, scan_status, result_visible,
                           force_visible, next_enabled, back_enabled, scan_worker,
                           scan_starts, stale_scan>>
       ELSE /\ summary_loaded' = TRUE
            /\ scan_worker' = "running"
            /\ scan_starts' = scan_starts + 1
            /\ stale_scan' = stale_scan + (IF scan_worker = "running" THEN 1 ELSE 0)
            /\ UNCHANGED <<scan_finished, scan_status, result_visible, force_visible,
                           next_enabled, back_enabled, crashed>>
    /\ UNCHANGED <<escvars, cancelvars, scanfnvars, sharedvars, latevars, summary_starts, stale_summary, taskvars,
                   configvars, page, shown, force_checked, summary_worker,
                   extract_path_set, storevars, used_saved_password, dialog, worker,
                   progress, orphans, last_result, last_class, last_acts,
                   shortcut_created, extracted, found_leftover_files, after_saved_reject,
                   cred_rejected, wrote_rejected>>

\* scan_with_virustotal in its WorkerThread: a report string, or an exception
ScanWorkerRun ==
    /\ scan_worker = "running"
    /\ \E r \in [exc : {TRUE}, report : {{}}] \cup [exc : {FALSE}, report : ScanReports] :
          mainQ' = Append(mainQ, Ev("scan", "result", r))
    /\ scan_worker' = "finished"
    /\ UNCHANGED <<extvars, taskvars, configvars, page, shown, summary_loaded, scan_finished, scan_status,
                   force_checked, force_visible, result_visible, summary_worker,
                   extract_path_set, back_enabled, next_enabled, storevars,
                   used_saved_password, dialog, worker, progress, orphans, outcomevars,
                   cred_rejected, wrote_rejected>>

\* scan_with_virustotal in a WorkerThread that _scan_thread no longer names
StaleScanRun ==
    /\ stale_scan > 0
    /\ ~crashed
    /\ stale_scan' = stale_scan - 1
    /\ \E r \in [exc : {TRUE}, report : {{}}] \cup [exc : {FALSE}, report : ScanReports] :
          mainQ' = Append(mainQ, Ev("scan", "result", r))
    /\ UNCHANGED <<escvars, cancelvars, scanfnvars, sharedvars, latevars, summary_starts, scan_starts,
                   stale_summary, taskvars, configvars, page, shown, scanvars,
                   extract_path_set, back_enabled, next_enabled, storevars,
                   used_saved_password, dialog, worker, progress, orphans, outcomevars,
                   cred_rejected, wrote_rejected>>

\* do_scan.on_done
OnScanDone ==
    /\ HeadIs("scan", {"result"})
    /\ ~crashed
    /\ mainQ' = Tail(mainQ)
    /\ scan_finished' = TRUE
    /\ LET r == Head(mainQ).p
           st == IF r.exc THEN "error" ELSE ReportStatus(r.report)
       IN /\ scan_status' = st
          /\ HandleScanFinished(st)
    /\ UNCHANGED <<extvars, taskvars, configvars, page, shown, summary_loaded, force_checked, summary_worker,
                   scan_worker, extract_path_set, storevars, used_saved_password, dialog,
                   worker, progress, orphans, outcomevars, cred_rejected, wrote_rejected>>

\* the user toggles cb_force_install; stateChanged emits p1.completeChanged
ToggleForce ==
    /\ UserCanAct
    /\ kind = "install"
    /\ page = InstallScanPage
    /\ force_visible
    /\ force_checked' = ~force_checked
    /\ next_enabled' = IsComplete(page, scan_finished, scan_status, ~force_checked,
                                  extract_path_set)
    /\ UNCHANGED <<extvars, taskvars, configvars, page, shown, summary_loaded, scan_finished, scan_status,
                   force_visible, result_visible, summary_worker, scan_worker,
                   extract_path_set, back_enabled, storevars, used_saved_password, dialog,
                   worker, mainQ, progress, orphans, outcomevars, cred_rejected,
                   wrote_rejected>>

\* select_extract_dir; textChanged emits p_extract.completeChanged
SelectExtractDir ==
    /\ UserCanAct
    /\ kind = "install"
    /\ page = InstallExtractPage
    /\ ~extract_path_set
    /\ extract_path_set' = TRUE
    /\ next_enabled' = IsComplete(page, scan_finished, scan_status, force_checked, TRUE)
    /\ UNCHANGED <<extvars, taskvars, configvars, page, shown, scanvars, back_enabled, storevars,
                   used_saved_password, dialog, worker, mainQ, progress, orphans,
                   outcomevars, cred_rejected, wrote_rejected>>

\* ===================================================== the operation worker
\* what a step of the worker function leaves alone
workerframe == <<extvars, taskvars, configvars, page, shown, scanvars, extract_path_set, back_enabled,
                 next_enabled, storevars, used_saved_password, dialog, progress,
                 outcomevars>>

WorkerAt(pcs) == worker.st = "running" /\ worker.pc \in pcs

\* WorkerThread.run: res = self.fn(...); self.result.emit(res)
run_emit(q, res) == Append(q, Ev("op", "result", res))

Result(rc, out, left) == [rc |-> rc, out |-> out, left |-> left]

StartLine == <<"--- Starting ---", LF>>
FirstProgress == IF kind = "install" THEN 5 ELSE 25

\* install / uninstall: the first Popen, password written to its stdin
WorkerLaunch ==
    /\ WorkerAt({"start"})
    /\ \/ /\ worker' = [worker EXCEPT !.pc = "read", !.proc = "alive", !.pn = 0]
          /\ mainQ' = mainQ \o <<Ev("op", "log", StartLine), Ev("op", "progress", FirstProgress)>>
          /\ wrote_rejected' = (wrote_rejected \/ cred_rejected)
       \/ /\ worker' = [worker EXCEPT !.pc = "except"]
          /\ mainQ' = Append(mainQ, Ev("op", "log", StartLine))
          /\ UNCHANGED wrote_rejected
    /\ UNCHANGED <<workerframe, orphans, cred_rejected>>

\* line = proc.stdout.readline(); output_lines.append(line); progress.emit
WorkerReadLine ==
    /\ WorkerAt({"read", "c_read"})
    /\ worker.n < MaxLines
    /\ \E l \in HelperLines(worker.password, worker.pn) :
          /\ worker' = [worker EXCEPT !.out = @ \o l, !.n = @ + 1, !.pn = @ + 1]
          /\ mainQ' = Append(mainQ, Ev("op", "log", l))
    /\ UNCHANGED <<workerframe, orphans, cred_rejected, wrote_rejected>>

\* lines of apt that carry a percentage, or only look like it
PercentLines ==
    { <<"Progress: [", "100", "%", "]", LF>>,
      <<"150", " ", "%", LF>> }

\* the same read when the backend prints such a line
WorkerReadPercentLine ==
    /\ WorkerAt({"read", "c_read"})
    /\ worker.n < MaxLines
    /\ worker.password = CorrectPassword
    /\ \E l \in PercentLines :
          /\ worker' = [worker EXCEPT !.out = @ \o l, !.n = @ + 1, !.pn = @ + 1]
          /\ mainQ' = Append(mainQ, Ev("op", "log", l))
    /\ UNCHANGED <<workerframe, orphans, cred_rejected, wrote_rejected>>

\* readline() returns "" : the helper closed its output
WorkerReadEOF ==
    /\ WorkerAt({"read", "c_read"})
    /\ HelperMayEnd(worker.password, worker.pn)
    /\ worker' = [worker EXCEPT !.pc = IF @ = "read" THEN "wait" ELSE "c_wait"]
    /\ UNCHANGED <<workerframe, mainQ, orphans, cred_rejected, wrote_rejected>>

\* readline() raises (the utf-8 text stream meets undecodable bytes)
WorkerReadRaises ==
    /\ WorkerAt({"read", "c_read"})
    /\ orphans < MaxOrphans
    /\ worker' = [worker EXCEPT !.pc = "except"]
    /\ UNCHANGED <<workerframe, mainQ, orphans, cred_rejected, wrote_rejected>>

\* proc.wait(); install returns (proc.returncode, output), uninstall goes on
WorkerWait ==
    /\ WorkerAt({"wait"})
    /\ \E rc \in HelperExit(worker.password) :
          IF kind = "install"
          THEN /\ worker' = [worker EXCEPT !.st = "finished", !.pc = "done", !.proc = "exited"]
               /\ mainQ' = run_emit(mainQ, Result(rc, worker.out, FALSE))
          ELSE /\ worker' = [worker EXCEPT !.pc = "c_start", !.proc = "exited", !.purge_rc = rc]
               /\ UNCHANGED mainQ
    /\ cred_rejected' = (cred_rejected \/ worker.password # CorrectPassword)
    /\ UNCHANGED <<workerframe, orphans, wrote_rejected>>

CleanupLine == <<"--- Cleaning up ---", LF>>

\* uninstall: the autoremove Popen, the same password written to its stdin
WorkerCleanupLaunch ==
    /\ WorkerAt({"c_start"})
    /\ mainQ' = Append(mainQ, Ev("op", "log", CleanupLine))
    /\ \/ /\ worker' = [worker EXCEPT !.pc = "c_read", !.proc = "alive", !.pn = 0]
          /\ wrote_rejected' = (wrote_rejected \/ cred_rejected)
       \/ /\ worker' = [worker EXCEPT !.pc = "except"]
          /\ UNCHANGED wrote_rejected
    /\ UNCHANGED <<workerframe, orphans, cred_rejected>>

LeftoverLine == <<"--- Scanning for leftover ---", LF>>

\* uninstall: cleanup_proc.wait(), the leftover search, the return
WorkerCleanupWait ==
    /\ WorkerAt({"c_wait"})
    /\ \E left \in (IF worker.purge_rc = 0 THEN BOOLEAN ELSE {FALSE}) :
          /\ worker' = [worker EXCEPT !.st = "finished", !.pc = "done", !.proc = "exited"]
          /\ mainQ' = run_emit(IF worker.purge_rc = 0
                               THEN Append(mainQ, Ev("op", "log", LeftoverLine))
                               ELSE mainQ,
                               Result(worker.purge_rc, worker.out, left))
    /\ UNCHANGED <<workerframe, orphans, cred_rejected, wrote_rejected>>

ErrorLine == <<"error: ", "errmsg", LF>>

\* except Exception as e: progress.emit(...); return -1, str(e)
WorkerExcept ==
    /\ WorkerAt({"except"})
    /\ worker' = [worker EXCEPT !.st = "finished", !.pc = "done", !.proc = "none"]
    /\ orphans' = IF worker.proc = "alive" THEN orphans + 1 ELSE orphans
    /\ mainQ' = run_emit(Append(mainQ, Ev("op", "log", ErrorLine)),
                         Result(ExceptionRc, ExceptionText, FALSE))
    /\ UNCHANGED <<workerframe, cred_rejected, wrote_rejected>>

\* a helper process nobody waits for ends by itself
OrphanExit ==
    /\ orphans > 0
    /\ orphans' = orphans - 1
    /\ UNCHANGED <<workerframe, worker, mainQ, cred_rejected, wrote_rejected>>

\* number of privileged helper processes of this wizard that are running
AliveHelpers == (IF worker.proc = "alive" THEN 1 ELSE 0) + orphans

\* ============================================================== callbacks
\* int() of the digit chunks that occur in lines
DigitChunks == {"100", "150"}

IntOf(c) ==
    CASE c = "100" -> 100
      [] c = "150" -> 150

\* positions where (\d+)\s*% matches
PercentMatches(line) ==
    { i \in DOMAIN line :
        /\ line[i] \in DigitChunks
        /\ \/ (i + 1 \in DOMAIN line /\ line[i + 1] = "%")
           \/ (i + 2 \in DOMAIN line /\ line[i + 1] = " " /\ line[i + 2] = "%") }

\* re.search: the leftmost match
FirstPercent(line) == CHOOSE i \in PercentMatches(line) : \A j \in PercentMatches(line) : i <= j

\* int(match.group(1)), without the cap
percent_value_uncapped(line) == IntOf(line[FirstPercent(line)])

\* min(99, int(match.group(1)))
percent_value(line) ==
    IF IntOf(line[FirstPercent(line)]) < 99 THEN IntOf(line[FirstPercent(line)]) ELSE 99

\* QProgressBar.setValue: a value outside minimum..maximum (0..100) is ignored
setValue(current, value) == IF value \in 0..100 THEN value ELSE current

\* on_progress(data)
OnProgress ==
    /\ HeadIs("op", {"log", "progress"})
    /\ ~crashed
    /\ mainQ' = Tail(mainQ)
    /\ LET line == IF Head(mainQ).type = "log" THEN Head(mainQ).p ELSE <<>>
       IN progress' = IF PercentMatches(line) # {}
                      THEN setValue(progress, percent_value(line))
                      ELSE IF Head(mainQ).type = "progress"
                      THEN setValue(progress, Head(mainQ).p)
                      ELSE progress
    /\ UNCHANGED <<extvars, taskvars, configvars, page, shown, scanvars, extract_path_set, back_enabled,
                   next_enabled, storevars, used_saved_password, dialog, worker, orphans,
                   outcomevars, cred_rejected, wrote_rejected>>

\* the branch without "if self._used_saved_password"
PasswordFailed_always_purges ==
    /\ saved_password' = "none"
    /\ auto_enabled' = FALSE
    /\ after_saved_reject' = used_saved_password
    /\ dialog' = "auth_retry"
    /\ last_acts' = {"prompt"}

\* the "elif is_password_error" branch, shared by both wizards
PasswordFailed ==
    /\ IF used_saved_password
       THEN /\ saved_password' = "none"
            /\ auto_enabled' = FALSE
            /\ after_saved_reject' = TRUE
       ELSE UNCHANGED <<saved_password, auto_enabled, after_saved_reject>>
    /\ dialog' = "auth_retry"
    /\ last_acts' = {"prompt"}

\* InstallWizard._get_worker_callbacks.done
DoneInstall ==
    /\ kind = "install"
    /\ HeadIs("op", {"result"})
    /\ ~crashed
    /\ mainQ' = Tail(mainQ)
    /\ LET r == Head(mainQ).p
           cls == done_class(r.rc, r.out)
       IN /\ last_result' = <<r>>
          /\ last_class' = cls
          /\ IF "backend" \in cls
             THEN /\ last_acts' = {"critical_box"}
                  /\ back_enabled' = TRUE
                  /\ UNCHANGED <<page, next_enabled, progress, dialog, storevars,
                                 shortcut_created, extracted, after_saved_reject>>
             ELSE IF "success" \in cls
             THEN /\ shortcut_created' = (shortcut_created \/ is_create_shortcut_mode)
                  /\ extracted' = (extracted \/ is_extract_mode)
                  /\ \E ok \in (IF is_extract_mode THEN BOOLEAN ELSE {TRUE}) :
                        /\ progress' = IF ok THEN 100 ELSE 80
                        /\ last_acts' = IF ok THEN {"next"} ELSE {"warning_box", "next"}
                  /\ SwitchTo(nextId(page, FALSE))
                  /\ UNCHANGED <<dialog, storevars, after_saved_reject>>
             ELSE IF "retry" \in cls
             THEN /\ PasswordFailed
                  /\ progress' = 5
                  /\ UNCHANGED <<page, back_enabled, next_enabled, shortcut_created, extracted>>
             ELSE /\ last_acts' = {"warning_box"}
                  /\ back_enabled' = TRUE
                  /\ UNCHANGED <<page, next_enabled, progress, dialog, storevars,
                                 shortcut_created, extracted, after_saved_reject>>
    /\ UNCHANGED <<extvars, taskvars, configvars, shown, scanvars, extract_path_set, used_saved_password, worker,
                   found_leftover_files, crashed, orphans, cred_rejected, wrote_rejected>>

\* UninstallWizard._get_worker_callbacks.done
DoneUninstall ==
    /\ kind = "uninstall"
    /\ HeadIs("op", {"result"})
    /\ ~crashed
    /\ mainQ' = Tail(mainQ)
    /\ LET r == Head(mainQ).p
           cls == done_class(r.rc, r.out)
       IN /\ last_result' = <<r>>
          /\ last_class' = cls
          /\ IF "backend" \in cls
             THEN /\ last_acts' = {"critical_box"}
                  /\ back_enabled' = TRUE
                  /\ UNCHANGED <<page, next_enabled, progress, dialog, storevars,
                                 found_leftover_files, crashed, after_saved_reject>>
             ELSE IF "success" \in cls
             THEN /\ progress' = 100
                  /\ found_leftover_files' = r.left
                  /\ IF r.left
                     THEN \* QListWidgetItem is not imported: NameError before self.next()
                          /\ crashed' = TRUE
                          /\ last_acts' = {}
                          /\ UNCHANGED <<page, back_enabled, next_enabled>>
                     ELSE /\ SwitchTo(nextId(page, FALSE))
                          /\ last_acts' = {"next"}
                          /\ UNCHANGED crashed
                  /\ UNCHANGED <<dialog, storevars, after_saved_reject>>
             ELSE IF "retry" \in cls
             THEN /\ PasswordFailed
                  /\ UNCHANGED <<page, back_enabled, next_enabled, progress,
                                 found_leftover_files, crashed>>
             ELSE /\ last_acts' = {"warning_box"}
                  /\ back_enabled' = TRUE
                  /\ UNCHANGED <<page, next_enabled, progress, dialog, storevars,
                                 found_leftover_files, crashed, after_saved_reject>>
    /\ UNCHANGED <<extvars, taskvars, configvars, shown, scanvars, extract_path_set, used_saved_password, worker,
                   shortcut_created, extracted, orphans, cred_rejected, wrote_rejected>>

\* ============================================================ WorkerThread
\* A worker function is any function that uses what run() hands it: it may
\* emit progress, launch a subprocess and register it with set_process, look
\* at is_running(), and in the end return a value or raise an exception.
TaskValues == {"value"}
TaskErrors == {"error"}

\* _start_worker_thread / load_summary / do_scan connect the signals, then start()
start_connects_result_only == {"result"}

start_connects == {"progress", "result"}

\* QThread.wait() returns once the thread has left run()
thread_wait_skipped(thread) == TRUE

thread_wait_over(thread) == thread = "finished"

\* WorkerThread.run: the outcomes of fn for which a result is emitted
\* (res = fn(...); result.emit(res) / except Exception as e: result.emit(e))
run_emits_without_except(outcome) == outcome.kind = "return"

run_emits(outcome) == outcome.kind \in {"return", "raise"}

\* WorkerThread.is_running
is_running == t_is_running /\ t_thread \in {"running", "fn_done"}

FnRunning == t_thread = "running"

\* worker = WorkerThread(fn, ...); connect; worker.start()
TaskStart ==
    /\ t_thread = "created"
    /\ t_connected' = start_connects
    /\ t_thread' = "running"
    /\ UNCHANGED <<extvars, wizvars, t_is_running, t_outcome, t_proc, t_registered, t_q, t_emitted,
                   t_result_emits, t_recv, t_results, t_stop, t_sigs, t_stop_requested,
                   t_unhandled, t_stop_after_delivery, t_late_activity>>

\* fn: worker.progress.emit(...)
FnEmitProgress ==
    /\ FnRunning
    /\ Len(t_emitted) < MaxProgress
    /\ LET k == Len(t_emitted) + 1 IN
          /\ t_emitted' = Append(t_emitted, k)
          /\ t_q' = IF "progress" \in t_connected
                    THEN Append(t_q, [type |-> "progress", p |-> k])
                    ELSE t_q
    /\ t_late_activity' = (t_late_activity \/ t_stop = "returned")
    /\ UNCHANGED <<extvars, wizvars, t_thread, t_is_running, t_connected, t_outcome, t_proc,
                   t_registered, t_result_emits, t_recv, t_results, t_stop, t_sigs,
                   t_stop_requested, t_unhandled, t_stop_after_delivery>>

\* fn: proc = subprocess.Popen(...), with or without worker.set_process(proc)
FnLaunch ==
    /\ FnRunning
    /\ t_proc = "none"
    /\ t_proc' = "alive"
    /\ t_registered' \in BOOLEAN
    /\ t_late_activity' = (t_late_activity \/ t_stop = "returned")
    /\ UNCHANGED <<extvars, wizvars, t_thread, t_is_running, t_connected, t_outcome, t_q, t_emitted,
                   t_result_emits, t_recv, t_results, t_stop, t_sigs, t_stop_requested,
                   t_unhandled, t_stop_after_delivery>>

\* fn returns a value or raises an exception
FnEnds ==
    /\ FnRunning
    /\ \E o \in ([kind : {"return"}, val : TaskValues] \cup [kind : {"raise"}, val : TaskErrors]) :
          t_outcome' = o
    /\ t_thread' = "fn_done"
    /\ t_late_activity' = (t_late_activity \/ t_stop = "returned")
    /\ UNCHANGED <<extvars, wizvars, t_is_running, t_connected, t_proc, t_registered, t_q, t_emitted,
                   t_result_emits, t_recv, t_results, t_stop, t_sigs, t_stop_requested,
                   t_unhandled, t_stop_after_delivery>>

\* WorkerThread.run after fn: emit the result, leave run()
RunEmitResult ==
    /\ t_thread = "fn_done"
    /\ t_thread' = "finished"
    /\ IF run_emits(t_outcome)
       THEN /\ t_result_emits' = Append(t_result_emits, t_outcome.val)
            /\ t_q' = IF "result" \in t_connected
                      THEN Append(t_q, [type |-> "result", p |-> t_outcome.val])
                      ELSE t_q
            /\ UNCHANGED t_unhandled
       ELSE /\ t_unhandled' = TRUE
            /\ UNCHANGED <<t_result_emits, t_q>>
    /\ t_late_activity' = (t_late_activity \/ t_stop = "returned")
    /\ UNCHANGED <<extvars, wizvars, t_is_running, t_connected, t_outcome, t_proc, t_registered,
                   t_emitted, t_recv, t_results, t_stop, t_sigs, t_stop_requested,
                   t_stop_after_delivery>>

\* the subprocess exits (by itself or after a signal)
ProcExits ==
    /\ t_proc = "alive"
    /\ t_proc' = "exited"
    /\ UNCHANGED <<extvars, wizvars, t_thread, t_is_running, t_connected, t_outcome, t_registered, t_q,
                   t_emitted, t_result_emits, t_recv, t_results, t_stop, t_sigs,
                   t_stop_requested, t_unhandled, t_stop_after_delivery, t_late_activity>>

\* the caller's event loop runs the slot of the next queued signal
TaskDeliver ==
    /\ t_q # <<>>
    /\ t_stop \in {"idle", "returned"}
    /\ t_q' = Tail(t_q)
    /\ IF Head(t_q).type = "progress"
       THEN t_recv' = Append(t_recv, Head(t_q).p) /\ UNCHANGED t_results
       ELSE t_results' = Append(t_results, Head(t_q).p) /\ UNCHANGED t_recv
    /\ UNCHANGED <<extvars, wizvars, t_thread, t_is_running, t_connected, t_outcome, t_proc,
                   t_registered, t_emitted, t_result_emits, t_stop, t_sigs, t_stop_requested,
                   t_unhandled, t_stop_after_delivery, t_late_activity>>

\* stop(): _is_running = False; stop_requested.emit(); the poll() test
StopCall ==
    /\ t_stop = "idle"
    /\ t_thread # "created"
    /\ t_is_running' = FALSE
    /\ t_stop_requested' = TRUE
    /\ t_stop_after_delivery' = (t_results # <<>>)
    /\ t_stop' = IF t_registered /\ t_proc = "alive" THEN "killpg" ELSE "wait"
    /\ UNCHANGED <<extvars, wizvars, t_thread, t_connected, t_outcome, t_proc, t_registered, t_q,
                   t_emitted, t_result_emits, t_recv, t_results, t_sigs, t_unhandled,
                   t_late_activity>>

\* stop(): os.killpg(os.getpgid(pid), 15)
StopKillpg ==
    /\ t_stop = "killpg"
    /\ IF t_proc = "alive"
       THEN \/ t_sigs' = Append(t_sigs, SIGTERM) /\ t_stop' = "proc_wait"
            \/ t_stop' = "wait" /\ UNCHANGED t_sigs      \* PermissionError: except Exception
       ELSE t_stop' = "kill9" /\ UNCHANGED t_sigs        \* ProcessLookupError
    /\ UNCHANGED <<extvars, wizvars, t_thread, t_is_running, t_connected, t_outcome, t_proc,
                   t_registered, t_q, t_emitted, t_result_emits, t_recv, t_results,
                   t_stop_requested, t_unhandled, t_stop_after_delivery, t_late_activity>>

\* stop(): self._process.wait(timeout=5). It returns when the subprocess has
\* exited; when the 5 seconds run out it raises subprocess.TimeoutExpired,
\* which is not a TimeoutError: "except Exception: pass" takes it.
StopProcWait ==
    /\ t_stop = "proc_wait"
    /\ t_stop' = "wait"
    /\ t_timed_out' = (t_proc = "alive")
    /\ UNCHANGED <<cancelvars, scanfnvars, prepvars, sharedvars, latevars, wizvars, t_thread, t_is_running, t_connected, t_outcome, t_proc,
                   t_registered, t_q, t_emitted, t_result_emits, t_recv, t_results, t_sigs,
                   t_stop_requested, t_unhandled, t_stop_after_delivery, t_late_activity>>

\* stop(): the handler of ProcessLookupError: os.killpg(os.getpgid(pid), 9)
StopKill9 ==
    /\ t_stop = "kill9"
    /\ IF t_proc = "alive"
       THEN t_sigs' = Append(t_sigs, SIGKILL)
       ELSE UNCHANGED t_sigs                             \* ProcessLookupError: pass
    /\ t_stop' = "wait"
    /\ UNCHANGED <<extvars, wizvars, t_thread, t_is_running, t_connected, t_outcome, t_proc,
                   t_registered, t_q, t_emitted, t_result_emits, t_recv, t_results,
                   t_stop_requested, t_unhandled, t_stop_after_delivery, t_late_activity>>

\* stop(): self.wait()
StopThreadWait ==
    /\ t_stop = "wait"
    /\ thread_wait_over(t_thread)
    /\ t_stop' = "returned"
    /\ UNCHANGED <<extvars, wizvars, t_thread, t_is_running, t_connected, t_outcome, t_proc,
                   t_registered, t_q, t_emitted, t_result_emits, t_recv, t_results, t_sigs,
                   t_stop_requested, t_unhandled, t_stop_after_delivery, t_late_activity>>

\* ============================================================ security.py
\* names of package files; a name is text chosen by whoever made the file
FileNames ==
    { <<"pkg.deb">>, <<"Clean", "er.deb">>, <<"SUSPICIOUS", ".deb">>, <<"DANGER!", ".deb">> }

\* "X in res" for a keyword X
contains(text, kw) == \E i \in DOMAIN text : text[i] = kw

KeywordsOf(text) == {kw \in ScanKeywords : contains(text, kw)}

Counts == 0..MaxCount
Stats == [malicious : Counts, suspicious : Counts, harmless : Counts, undetected : Counts]

\* requests.get(report_url, headers=headers, timeout=30)
StatusCodes == {200, 304, 401, 404, 500}
Lookups ==
    [kind : {"response"}, code : StatusCodes]
        \cup [kind : {"connection_error", "timeout"}, code : {0}]

\* Response.raise_for_status(): HTTPError for the 4xx and 5xx status codes
raise_for_status(code) == code >= 400 /\ code < 600

\* scan_with_virustotal: what is done with the outcome of the lookup
vt_branch_without_404_test(l) ==
    IF l.kind # "response" THEN "fallback"
    ELSE IF raise_for_status(l.code) THEN "fallback"
    ELSE "body"

vt_branch(l) ==
    IF l.kind # "response" THEN "fallback"
    ELSE IF l.code = 404 THEN "not_found"
    ELSE IF raise_for_status(l.code) THEN "fallback"
    ELSE "body"

Bodies == {"report", "not_json", "no_data"}

\* report_res.json()["data"]["attributes"]: a body that is not JSON raises
\* JSONDecodeError, a RequestException in requests >= 2.27 and a plain
\* ValueError before; a JSON body without "data" raises KeyError
body_outcomes(body) ==
    IF body = "report" THEN {"report"}
    ELSE IF body = "not_json" THEN {"fallback", "raised"}
    ELSE {"raised"}

\* the report for status 404
report_404(name) ==
    [exc |-> FALSE,
     text |-> <<"Scan Complete for: ">> \o name
              \o <<LF, "Result: ", "SUSPICIOUS", " (File not found in VirusTotal database)", LF>>,
     num |-> 0, den |-> 0]

\* the report formatted from last_analysis_stats
vt_report(name, st) ==
    LET total == st.malicious + st.suspicious + st.harmless + st.undetected
        head == <<"Scan Complete for: ">> \o name \o <<LF, "Result: ">>
        rest == <<LF, "Malicious: ", "Suspicious: ", "Harmless: ", "Undetected: ", LF>>
    IN IF st.malicious > 0
       THEN [exc |-> FALSE, text |-> head \o <<"DANGER!", " engines detected threats">> \o rest,
             num |-> st.malicious, den |-> total]
       ELSE IF st.suspicious > 0
       THEN [exc |-> FALSE,
             text |-> head \o <<"SUSPICIOUS", " engines flagged as suspicious">> \o rest,
             num |-> st.suspicious, den |-> total]
       ELSE [exc |-> FALSE, text |-> head \o <<"Clean", " engines found no threats">> \o rest,
             num |-> st.harmless + st.undetected, den |-> total]

RaisedResult == [exc |-> TRUE, text |-> <<"error">>, num |-> 0, den |-> 0]

\* e.stderr of CalledProcessError (dpkg-deb names the file), str(e) of FileNotFoundError
ExtractErrors(name) ==
    { <<"dpkg-deb: error: '">> \o name \o <<"' is not a Debian format archive">>,
      <<"[Errno 2] No such file or directory: 'dpkg-deb'">> }

\* scan_offline: the return value of the except clause
offline_failed(name, err) ==
    [exc |-> FALSE,
     text |-> <<"Offline Scan Failed for: ">> \o name
              \o <<LF, "Could not extract package for analysis.", LF, "Details: ">> \o err,
     num |-> 0, den |-> 0]

\* the report with "if len(findings) < 2" for "if not findings"
offline_report_one_finding_is_clean(name, n) ==
    LET head == <<"Offline Scan Complete for: ">> \o name \o <<LF, "Result: ">>
    IN IF n < 2
       THEN [exc |-> FALSE,
             text |-> head \o <<"Clean", " (No obvious suspicious indicators found)", LF>>,
             num |-> 0, den |-> 0]
       ELSE [exc |-> FALSE,
             text |-> head \o <<"SUSPICIOUS", " potential issues found", LF>>,
             num |-> n, den |-> 0]

\* scan_offline: the formatted report for n findings
offline_report(name, n) ==
    LET head == <<"Offline Scan Complete for: ">> \o name \o <<LF, "Result: ">>
    IN IF n = 0
       THEN [exc |-> FALSE,
             text |-> head \o <<"Clean", " (No obvious suspicious indicators found)", LF>>,
             num |-> 0, den |-> 0]
       ELSE [exc |-> FALSE,
             text |-> head \o <<"SUSPICIOUS", " potential issues found", LF>>,
             num |-> n, den |-> 0]

SUSPICIOUS_COMMANDS ==
    {"curl", "wget", "nc", "netcat", "base64", "python", "perl", "ruby", "rm -rf", "mkfs",
     "shutdown", "reboot", "nohup", "crontab", "systemctl start", "systemctl enable",
     "useradd", "usermod", "groupadd", "add-apt-repository"}

\* pieces a maintainer script is made of: a command name, letters that
\* continue a word, blank, newline, and punctuation of the shell
ScriptChunks == {"curl", "icue", " ", LF, ";", "$(", "/"}

RECURSIVE SeqsUpTo(_, _)
SeqsUpTo(S, n) ==
    IF n = 0 THEN {<<>>}
    ELSE LET shorter == SeqsUpTo(S, n - 1)
         IN shorter \cup {Append(q, x) : q \in {r \in shorter : Len(r) = n - 1}, x \in S}

Scripts == SeqsUpTo(ScriptChunks, MaxScript)

\* re.search(r'(^|\s|/)' + re.escape(command) + r'(\s|;|\||&|$)', content)
RegexBefore == {" ", LF, "/"}
RegexAfter == {" ", LF, ";", "|", "&"}

command_found(command, content) ==
    \E i \in DOMAIN content :
        /\ content[i] = command
        /\ (i = 1 \/ content[i - 1] \in RegexBefore)
        /\ (i = Len(content) \/ content[i + 1] \in RegexAfter)

\* a & b of two non-negative integers
RECURSIVE BitAnd(_, _)
BitAnd(a, b) ==
    IF a = 0 \/ b = 0 THEN 0
    ELSE (a % 2) * (b % 2) + 2 * BitAnd(a \div 2, b \div 2)

SUSPICIOUS_PATHS ==
    { <<"/", "home">>, <<"/", "root">>, <<"/", "tmp">>, <<"/", "var", "/", "tmp">> }

\* entries of the extracted tree: relative_path as its parts (a part is a
\* sequence of chunks), the kind of the entry, and st_mode & 0o7777 as
\* item.stat() gives it (for a symlink, of the file it points to):
\* 0o644, 0o755, 0o4644, 0o4744, 0o4755, 0o2755, 0o6755
Entries ==
    LET su == << <<"usr">>, <<"bin">>, <<"su">> >>
        paths == { << <<"home">>, <<"x">> >>, << <<"home", "work">>, <<"x">> >>,
                   << <<"home">> >>, << <<"root">>, <<"x">> >>,
                   << <<"tmp">>, <<"payload.bin">> >>, << <<"var">>, <<"tmp">>, <<"x">> >>,
                   << <<"tmp">>, <<"DEBIAN">>, <<"x">> >>, << <<"DEBIAN">>, <<"postinst">> >>,
                   su }
    IN [path : paths, kind : {"file"}, mode : {420, 2541}]
       \cup [path : {su}, kind : {"file", "dir", "symlink"},
             mode : {420, 493, 2468, 2532, 2541, 1517, 3565}]

\* trees of at most n entries, no path twice
RECURSIVE TreesUpTo(_)
TreesUpTo(n) ==
    IF n = 0 THEN {{}}
    ELSE LET smaller == TreesUpTo(n - 1)
         IN smaller \cup UNION { {t \cup {e} : e \in {x \in Entries :
                                                      \A y \in t : y.path # x.path}} :
                                  t \in smaller }

\* what scan_offline finds in the package: the content of a maintainer
\* script and the extracted tree
OfflineInputs ==
    {<<sc, {}>> : sc \in Scripts}
        \cup {<<sc, tr>> : sc \in {<<>>, <<"curl">>}, tr \in TreesUpTo(MaxEntries)}

\* install_path_str = f"/{relative_path}"
RECURSIVE install_path_str(_)
install_path_str(parts) ==
    IF parts = <<>> THEN <<>>
    ELSE <<"/">> \o Head(parts) \o install_path_str(Tail(parts))

\* for suspicious_path in SUSPICIOUS_PATHS:
\*     if install_path_str.startswith(suspicious_path + '/'): findings.append(...); break
location_findings(e) ==
    IF \E sp \in SUSPICIOUS_PATHS : IsPrefix(sp \o <<"/">>, install_path_str(e.path))
    THEN {[what |-> "location", path |-> e.path]}
    ELSE {}

\* if item.is_file() and not item.is_symlink() and (item.stat().st_mode & 0o111):
\*     st_mode & 0o4000 is SUID, st_mode & 0o2000 is SGID
mode_findings(e) ==
    IF e.kind = "file" /\ BitAnd(e.mode, 73) # 0
    THEN {[what |-> "SUID", path |-> e.path] : x \in {y \in {1} : BitAnd(e.mode, 2048) # 0}}
         \cup {[what |-> "SGID", path |-> e.path] : x \in {y \in {1} : BitAnd(e.mode, 1024) # 0}}
    ELSE {}

\* for item in content_root.rglob('*'): an item with a part "DEBIAN" is
\* skipped (the parts of the temporary directory itself are not "DEBIAN")
walk_findings(tree) ==
    UNION { IF \E i \in DOMAIN e.path : e.path[i] = <<"DEBIAN">>
            THEN {}
            ELSE location_findings(e) \cup mode_findings(e) : e \in tree }

\* what a step of scan_with_virustotal leaves alone
scanframe == <<escvars, cancelvars, prepvars, sharedvars, latevars, taskvars, wizvars>>

\* scan_with_virustotal: the API key test, the SHA-256 of the file
ScanBegin ==
    /\ scan_worker = "running"
    /\ s_pc = "idle"
    /\ \E name \in FileNames, key \in BOOLEAN, blocks \in 0..MaxBlocks :
          /\ s_name' = name
          /\ IF key
             THEN s_pc' = "hashing" /\ s_left' = blocks /\ UNCHANGED s_result
             ELSE /\ s_pc' = "raised"
                  /\ s_result' = RaisedResult   \* ValueError, re-raised
                  /\ UNCHANGED s_left
    /\ UNCHANGED <<scanframe, s_lookup, s_body, s_stats, s_offline_calls, s_extract, s_script,
                   s_findings, s_tree, s_walk, s_is_running>>

\* for byte_block in iter(lambda: f.read(4096), b""): the flag is tested
\* for each block that was read; InterruptedError is neither a
\* RequestException nor a ValueError and leaves scan_with_virustotal
ScanHashBlock ==
    /\ s_pc = "hashing"
    /\ IF s_left = 0
       THEN s_pc' = "lookup" /\ UNCHANGED <<s_left, s_result>>
       ELSE IF ~s_is_running
            THEN /\ s_pc' = "raised"
                 /\ s_result' = [exc |-> TRUE, text |-> <<"Scan was cancelled.">>,
                                 num |-> 0, den |-> 0]
                 /\ UNCHANGED s_left
            ELSE s_left' = s_left - 1 /\ UNCHANGED <<s_pc, s_result>>
    /\ UNCHANGED <<scanframe, s_name, s_lookup, s_body, s_stats, s_offline_calls, s_extract,
                   s_script, s_findings, s_tree, s_walk, s_is_running>>

\* WorkerThread.stop() called on the scan's thread while the function runs:
\* _is_running = False; there is no subprocess reference to signal
ScanStop ==
    /\ scan_worker = "running"
    /\ s_pc \in {"idle", "hashing", "lookup", "offline"}
    /\ s_is_running
    /\ s_is_running' = FALSE
    /\ UNCHANGED <<scanframe, s_pc, s_name, s_lookup, s_body, s_stats, s_offline_calls,
                   s_extract, s_script, s_findings, s_tree, s_walk, s_left, s_result>>

\* scan_with_virustotal: requests.get and the handling of its outcome
ScanLookup ==
    /\ s_pc = "lookup"
    /\ \E l \in Lookups :
          /\ s_lookup' = l
          /\ \/ /\ vt_branch(l) = "not_found"
                /\ s_result' = report_404(s_name)
                /\ s_pc' = "returned"
                /\ UNCHANGED <<s_body, s_stats>>
             \/ /\ vt_branch(l) = "fallback"
                /\ s_pc' = "offline"
                /\ UNCHANGED <<s_body, s_stats, s_result>>
             \/ /\ vt_branch(l) = "body"
                /\ \E b \in Bodies : \E o \in body_outcomes(b) :
                      /\ s_body' = b
                      /\ \/ /\ o = "report"
                            /\ \E st \in Stats :
                                  /\ s_stats' = st
                                  /\ s_result' = vt_report(s_name, st)
                            /\ s_pc' = "returned"
                         \/ /\ o = "fallback"
                            /\ s_pc' = "offline"
                            /\ UNCHANGED <<s_stats, s_result>>
                         \/ /\ o = "raised"
                            /\ s_pc' = "raised"
                            /\ s_result' = RaisedResult
                            /\ UNCHANGED s_stats
    /\ UNCHANGED <<scanframe, s_name, s_offline_calls, s_extract, s_script, s_findings,
                   s_tree, s_walk, s_is_running, s_left>>

\* except RequestException: return scan_offline(filepath, worker=worker)
ScanOffline ==
    /\ s_pc = "offline"
    /\ s_offline_calls' = s_offline_calls + 1
    /\ \/ /\ s_extract' = "failed"
          /\ \E err \in ExtractErrors(s_name) : s_result' = offline_failed(s_name, err)
          /\ UNCHANGED <<s_script, s_findings, s_tree, s_walk>>
       \/ /\ s_extract' = "ok"
          /\ \E inp \in OfflineInputs :
                LET found == {c \in SUSPICIOUS_COMMANDS : command_found(c, inp[1])}
                    walked == walk_findings(inp[2])
                IN /\ s_script' = inp[1]
                   /\ s_tree' = inp[2]
                   /\ s_findings' = found
                   /\ s_walk' = walked
                   /\ s_result' = offline_report(s_name, Cardinality(found) + Cardinality(walked))
    /\ s_pc' = "returned"
    /\ UNCHANGED <<scanframe, s_name, s_lookup, s_body, s_stats, s_is_running, s_left>>

\* WorkerThread.run emits the return value or the exception; do_scan.on_done
\* and handle_scan_finished run in the wizard
ScanOnDone ==
    /\ s_pc \in {"returned", "raised"}
    /\ scan_worker = "running"
    /\ s_pc' = "done"
    /\ scan_worker' = "finished"
    /\ scan_finished' = TRUE
    /\ LET st == IF s_result.exc THEN "error" ELSE ReportStatus(KeywordsOf(s_result.text))
       IN /\ scan_status' = st
          /\ HandleScanFinished(st)
    /\ UNCHANGED <<escvars, cancelvars, prepvars, sharedvars, latevars, taskvars, s_name, s_lookup, s_body, s_stats,
                   s_offline_calls, s_extract, s_script, s_findings, s_tree, s_walk,
                   s_is_running, s_left, s_result, configvars, page, shown, summary_loaded, force_checked, summary_worker,
                   extract_path_set, storevars, used_saved_password, dialog, worker, mainQ,
                   progress, orphans, outcomevars, cred_rejected, wrote_rejected>>

\* ======================================== install() run by a WorkerThread
\* The install worker function step by step, with a caller that may call
\* stop() while it runs. The helper prints some lines, or none; it exits when
\* a signal reaches it and, unless its command is endless, also by itself.
InstallerGroup == "installer"

\* subprocess.Popen(cmd, stdin=PIPE, stdout=PIPE, stderr=STDOUT, ...): without
\* start_new_session / preexec_fn the child stays in the caller's process group
popen_group == InstallerGroup

\* install() never calls worker.set_process(proc)
install_registers == FALSE

\* progress.emit(...) from the worker function
cancel_emit ==
    /\ t_emitted' = Append(t_emitted, Len(t_emitted) + 1)
    /\ t_q' = IF "progress" \in t_connected
              THEN Append(t_q, [type |-> "progress", p |-> Len(t_emitted) + 1])
              ELSE t_q

\* install(): the log line, Popen, the password to stdin, progress 5
CancelLaunch ==
    /\ t_thread = "running"
    /\ c_pc = "start"
    /\ c_helper' = "alive"
    /\ c_endless' \in BOOLEAN
    /\ c_pgid' = popen_group
    /\ t_registered' = install_registers
    /\ cancel_emit
    /\ c_pc' = "check"
    /\ UNCHANGED <<escvars, scanfnvars, prepvars, sharedvars, latevars, wizvars, c_rc, c_pipe, c_printed, c_out, c_sent, c_class,
                   t_thread, t_is_running, t_connected, t_outcome, t_proc, t_result_emits,
                   t_recv, t_results, t_stop, t_sigs, t_stop_requested, t_unhandled,
                   t_stop_after_delivery, t_late_activity>>

\* the helper writes a line to its stdout
HelperPrint ==
    /\ c_helper = "alive"
    /\ c_pipe = <<>>
    /\ c_printed < MaxLines
    /\ \E ln \in BackendLines : c_pipe' = <<ln>>
    /\ c_printed' = c_printed + 1
    /\ UNCHANGED <<escvars, scanfnvars, prepvars, sharedvars, latevars, wizvars, taskvars, c_pc, c_helper, c_endless, c_pgid, c_rc, c_out, c_sent,
                   c_class>>

\* a helper whose command ends by itself exits with the command's exit code
HelperExits ==
    /\ c_helper = "alive"
    /\ ~c_endless
    /\ c_helper' = "exited"
    /\ c_rc' \in HelperExitCodes
    /\ UNCHANGED <<escvars, scanfnvars, prepvars, sharedvars, latevars, wizvars, taskvars, c_pc, c_endless, c_pgid, c_pipe, c_printed,
                   c_out, c_sent, c_class>>

\* a signal has been sent to the helper: it ends, killed by the signal
HelperDies ==
    /\ c_helper = "alive"
    /\ c_sent # <<>>
    /\ c_helper' = "exited"
    /\ c_rc' = TerminatedRc
    /\ UNCHANGED <<escvars, scanfnvars, prepvars, sharedvars, latevars, wizvars, taskvars, c_pc, c_endless, c_pgid, c_pipe, c_printed, c_out, c_sent,
                   c_class>>

\* install(): if worker and not worker.is_running(): proc.terminate(); break
CancelCheck ==
    /\ t_thread = "running"
    /\ c_pc = "check"
    /\ IF is_running
       THEN c_pc' = "readline" /\ UNCHANGED c_sent
       ELSE /\ c_pc' = "wait"
            /\ c_sent' = IF c_helper = "alive"
                         THEN Append(c_sent, [sig |-> SIGTERM, to |-> "child"])
                         ELSE c_sent
    /\ UNCHANGED <<escvars, scanfnvars, prepvars, sharedvars, latevars, wizvars, taskvars, c_helper, c_endless, c_pgid, c_rc, c_pipe, c_printed,
                   c_out, c_class>>

\* install(): line = proc.stdout.readline() returns a line; append it, emit it
CancelRead ==
    /\ t_thread = "running"
    /\ c_pc = "readline"
    /\ c_pipe # <<>>
    /\ c_out' = c_out \o Head(c_pipe)
    /\ c_pipe' = Tail(c_pipe)
    /\ cancel_emit
    /\ c_pc' = "check"
    /\ UNCHANGED <<escvars, scanfnvars, prepvars, sharedvars, latevars, wizvars, c_helper, c_endless, c_pgid, c_rc, c_printed, c_sent, c_class,
                   t_thread, t_is_running, t_connected, t_outcome, t_proc, t_registered,
                   t_result_emits, t_recv, t_results, t_stop, t_sigs, t_stop_requested,
                   t_unhandled, t_stop_after_delivery, t_late_activity>>

\* install(): readline() returns "" once the helper has closed its stdout: break
CancelReadEOF ==
    /\ t_thread = "running"
    /\ c_pc = "readline"
    /\ c_pipe = <<>>
    /\ c_helper = "exited"
    /\ c_pc' = "wait"
    /\ UNCHANGED <<escvars, scanfnvars, prepvars, sharedvars, latevars, wizvars, taskvars, c_helper, c_endless, c_pgid, c_rc, c_pipe, c_printed,
                   c_out, c_sent, c_class>>

\* install(): proc.wait(); return proc.returncode, "".join(output_lines)
CancelWait ==
    /\ t_thread = "running"
    /\ c_pc = "wait"
    /\ c_helper = "exited"
    /\ c_pc' = "done"
    /\ t_outcome' = [kind |-> "return", val |-> Result(c_rc, c_out, FALSE)]
    /\ t_thread' = "fn_done"
    /\ UNCHANGED <<escvars, scanfnvars, prepvars, sharedvars, latevars, wizvars, c_helper, c_endless, c_pgid, c_rc, c_pipe, c_printed, c_out,
                   c_sent, c_class, t_is_running, t_connected, t_proc, t_registered, t_q,
                   t_emitted, t_result_emits, t_recv, t_results, t_stop, t_sigs,
                   t_stop_requested, t_unhandled, t_stop_after_delivery, t_late_activity>>

\* the caller's event loop runs on_progress, or done(result) and its if/elif chain
CancelDeliver ==
    /\ t_q # <<>>
    /\ t_stop \in {"idle", "returned"}
    /\ t_q' = Tail(t_q)
    /\ IF Head(t_q).type = "progress"
       THEN /\ t_recv' = Append(t_recv, Head(t_q).p)
            /\ UNCHANGED <<t_results, c_class>>
       ELSE /\ t_results' = Append(t_results, Head(t_q).p)
            /\ c_class' = done_class(Head(t_q).p.rc, Head(t_q).p.out)
            /\ UNCHANGED t_recv
    /\ UNCHANGED <<escvars, scanfnvars, prepvars, sharedvars, latevars, wizvars, c_pc, c_helper, c_endless, c_pgid, c_rc, c_pipe, c_printed, c_out,
                   c_sent, t_thread, t_is_running, t_connected, t_outcome, t_proc,
                   t_registered, t_emitted, t_result_emits, t_stop, t_sigs, t_stop_requested,
                   t_unhandled, t_stop_after_delivery, t_late_activity>>

\* ================================================================ main.py
\* is_critical_package: the names of critical_packages that occur below
critical_packages ==
    { <<"bash">>, <<"libc6">>, <<"apt">>, <<"linux-image", "-generic">> }

KernelNames == {"linux-image", "linux-headers", "linux-modules"}

\* is_critical_package(pkg_name)[0]
is_critical_package(pkg_name) ==
    \/ LowerText(pkg_name) \in critical_packages
    \/ \E kernel \in KernelNames : contains(LowerText(pkg_name), kernel)

\* package names: the Package field of a .deb, or the --uninstall argument
PackageNames ==
    { <<"bash">>, <<"Bash">>, <<"LIBC6">>, <<"apt">>, <<"bash", "-completion">>,
      <<"linux-image", "-generic">>, <<"Linux-Image", "-6.1">>,
      <<"my-", "linux-modules", "-extra">>, <<"hello">>, <<"nano-installer">> }

\* compare_versions of the .deb's version with get_installed_version
InstalledRelations == {"not_installed", "newer", "same", "older"}

oldvars == <<wizvars, taskvars, escvars, cancelvars, scanfnvars, prepvars, sharedvars>>

mainframe == <<oldvars, stopvars, offvars, updvars>>

\* main(): "if args.uninstall: UninstallWizard(args.uninstall, ...).exec_()"
MainUninstallOption ==
    /\ m_pc = "start"
    /\ \E name \in PackageNames : m_pkg' = name
    /\ m_entry' = "option"
    /\ m_wizard' = "uninstall"
    /\ m_pc' = "done"
    /\ UNCHANGED <<mainframe, m_box>>

\* process_deb_file up to its first dialog or wizard
ProcessDebFile ==
    /\ m_pc = "start"
    /\ m_entry' = "file"
    /\ \E name \in PackageNames \cup {<<>>}, rel \in InstalledRelations :
          /\ m_pkg' = name
          /\ IF name = <<>>                       \* get_deb_info gave no Package
             THEN m_box' = "warning" /\ m_pc' = "done" /\ m_wizard' = "none"
             ELSE IF is_critical_package(name)
             THEN m_box' = "critical" /\ m_pc' = "done" /\ m_wizard' = "none"
             ELSE IF rel = "not_installed"
             THEN m_box' = "none" /\ m_pc' = "done" /\ m_wizard' = "install"
             ELSE /\ m_box' = "none"
                  /\ m_wizard' = "none"
                  /\ m_pc' = CASE rel = "newer" -> "ask_update"
                                [] rel = "same" -> "ask_same"
                                [] OTHER -> "ask_rollback"
    /\ UNCHANGED mainframe

\* process_deb_file: the answer to "update?", "reinstall or uninstall?",
\* "roll back?"
MainAnswer ==
    /\ m_pc \in {"ask_update", "ask_same", "ask_rollback"}
    /\ \E button \in (IF m_pc = "ask_same" THEN {"reinstall", "uninstall", "cancel"}
                       ELSE {"yes", "cancel"}) :
          m_wizard' = CASE button \in {"yes", "reinstall"} -> "install"
                        [] button = "uninstall" -> "uninstall"
                        [] OTHER -> "none"
    /\ m_pc' = "done"
    /\ UNCHANGED <<mainframe, m_entry, m_pkg, m_box>>

\* ========================= install() and uninstall(), the flag cleared
stopframe == <<oldvars, entryvars, offvars, updvars>>

\* reads a worker function makes at most before its helper closes the pipe
MaxReads == 2

\* WorkerThread.stop(): _is_running = False
StopFlagCleared ==
    /\ u_is_running
    /\ u_pc # "done"
    /\ u_is_running' = FALSE
    /\ UNCHANGED <<stopframe, u_pc, u_stage, u_proc, u_signalled, u_returncode, u_reads,
                   u_launches, u_writes, u_observed, u_searched>>

\* Popen(["sudo", "-S", backend, "apt-op", ...]); proc.stdin.write(password)
StopLaunch ==
    /\ u_pc = "start"
    /\ u_proc' = "alive"
    /\ u_launches' = u_launches + 1
    /\ u_writes' = u_writes + 1
    /\ u_pc' = "check"
    /\ UNCHANGED <<stopframe, u_stage, u_is_running, u_signalled, u_returncode, u_reads,
                   u_observed, u_searched>>

\* if worker and not worker.is_running(): proc.terminate(); break
StopCheck ==
    /\ u_pc = "check"
    /\ IF u_is_running
       THEN u_pc' = "readline" /\ UNCHANGED <<u_signalled, u_observed>>
       ELSE u_pc' = "wait" /\ u_signalled' = TRUE /\ u_observed' = TRUE
    /\ UNCHANGED <<stopframe, u_stage, u_is_running, u_proc, u_returncode, u_reads,
                   u_launches, u_writes, u_searched>>

\* line = proc.stdout.readline(): a line, or "" and break
StopRead ==
    /\ u_pc = "readline"
    /\ u_reads' = u_reads + 1
    /\ \/ u_proc = "alive" /\ u_reads < MaxReads /\ u_pc' = "check"
       \/ u_proc = "exited" /\ u_pc' = "wait"
    /\ UNCHANGED <<stopframe, u_stage, u_is_running, u_proc, u_signalled, u_returncode,
                   u_launches, u_writes, u_observed, u_searched>>

\* the helper ends: by itself, or killed by the SIGTERM of terminate()
StopHelperExits ==
    /\ u_proc = "alive"
    /\ u_proc' = "exited"
    /\ \E rc \in HelperExitCodes \cup (IF u_signalled THEN {TerminatedRc} ELSE {}) :
          u_returncode' = IF u_stage = 1 THEN rc ELSE u_returncode
    /\ UNCHANGED <<stopframe, u_pc, u_stage, u_is_running, u_signalled, u_reads, u_launches,
                   u_writes, u_observed, u_searched>>

\* proc.wait(); install() returns; uninstall() goes on to the autoremove
\* helper, and after that one to the leftover search
StopWait ==
    /\ u_pc = "wait"
    /\ u_proc = "exited"
    /\ u_pc' = IF kind = "install" THEN "done"
               ELSE IF u_stage = 1 THEN "cleanup" ELSE "leftovers"
    /\ UNCHANGED <<stopframe, u_stage, u_is_running, u_proc, u_signalled, u_returncode,
                   u_reads, u_launches, u_writes, u_observed, u_searched>>

\* uninstall(): cleanup_proc = Popen(["sudo", "-S", backend, "apt",
\* "autoremove", "-y"]); cleanup_proc.stdin.write(password)
StopCleanupLaunch ==
    /\ u_pc = "cleanup"
    /\ u_stage' = 2
    /\ u_proc' = "alive"
    /\ u_signalled' = FALSE
    /\ u_launches' = u_launches + 1
    /\ u_writes' = u_writes + 1
    /\ u_pc' = "check"
    /\ UNCHANGED <<stopframe, u_is_running, u_returncode, u_reads, u_observed, u_searched>>

\* uninstall(): "if proc.returncode == 0:" the leftover search; return
StopLeftovers ==
    /\ u_pc = "leftovers"
    /\ u_searched' = (u_returncode = 0)
    /\ u_pc' = "done"
    /\ UNCHANGED <<stopframe, u_stage, u_is_running, u_proc, u_signalled, u_returncode,
                   u_reads, u_launches, u_writes, u_observed>>

\* ================================ scan_offline, statement by statement
offframe == <<oldvars, entryvars, stopvars, updvars>>

\* calls of scan_offline in one run of the program
MaxCalls == 2

\* temp_dir = tempfile.mkdtemp(prefix="nano-installer-scan-"): a directory
\* that did not exist is created, or OSError leaves the function before "try"
OfflineMkdtemp ==
    /\ o_pc \in {"idle", "returned", "raised"}
    /\ o_calls < MaxCalls
    /\ o_calls' = o_calls + 1
    /\ o_pending' = "none"
    /\ o_n' = 0
    /\ \E name \in FileNames, made \in BOOLEAN :
          /\ o_name' = name
          /\ IF made
             THEN /\ o_temp_dir' = o_calls + 1
                  /\ o_tmp' = o_tmp \cup {o_calls + 1}
                  /\ o_made' = o_made \cup {o_calls + 1}
                  /\ o_pc' = "extract"
                  /\ o_result' = NoReport
             ELSE /\ o_temp_dir' = 0
                  /\ o_pc' = "raised"
                  /\ o_result' = RaisedResult
                  /\ UNCHANGED <<o_tmp, o_made>>
    /\ UNCHANGED offframe

\* subprocess.run(extract_cmd, check=True, capture_output=True, text=True):
\* it returns, or raises CalledProcessError or FileNotFoundError, which the
\* except clause turns into a return value, or raises something else
\* (PermissionError, UnicodeDecodeError), which no clause catches
OfflineExtract ==
    /\ o_pc = "extract"
    /\ \/ /\ o_pc' = "analyze"
          /\ UNCHANGED <<o_pending, o_result>>
       \/ /\ \E err \in ExtractErrors(o_name) : o_result' = offline_failed(o_name, err)
          /\ o_pending' = "return"
          /\ o_pc' = "finally"
       \/ /\ o_result' = RaisedResult
          /\ o_pending' = "raise"
          /\ o_pc' = "finally"
    /\ UNCHANGED <<offframe, o_calls, o_name, o_temp_dir, o_tmp, o_made, o_n>>

\* steps 2 and 3: the maintainer scripts and the extracted tree; the loops
\* end, or a statement of them raises (worker.progress.emit, rglob, stat)
OfflineAnalyze ==
    /\ o_pc = "analyze"
    /\ \/ /\ \E inp \in OfflineInputs :
                o_n' = Cardinality({c \in SUSPICIOUS_COMMANDS : command_found(c, inp[1])})
                          + Cardinality(walk_findings(inp[2]))
          /\ o_pending' = "fall"
          /\ UNCHANGED o_result
       \/ /\ o_result' = RaisedResult
          /\ o_pending' = "raise"
          /\ UNCHANGED o_n
    /\ o_pc' = "finally"
    /\ UNCHANGED <<offframe, o_calls, o_name, o_temp_dir, o_tmp, o_made>>

\* shutil.rmtree(temp_dir)
rmtree(dirs, d) == dirs \ {d}

\* the removal written in the except clause instead of a finally clause
OfflineFinally_in_except_clause ==
    /\ o_pc = "finally"
    /\ o_tmp' = IF o_pending = "return" /\ o_temp_dir \in o_tmp
                THEN rmtree(o_tmp, o_temp_dir) ELSE o_tmp
    /\ o_pc' = CASE o_pending = "return" -> "returned"
                 [] o_pending = "raise" -> "raised"
                 [] OTHER -> "format"
    /\ UNCHANGED <<offframe, o_calls, o_name, o_temp_dir, o_made, o_pending, o_n, o_result>>

\* finally: if Path(temp_dir).exists(): shutil.rmtree(temp_dir); then the
\* pending return or exception goes on, or the statements after the try run
OfflineFinally ==
    /\ o_pc = "finally"
    /\ o_tmp' = IF o_temp_dir \in o_tmp THEN rmtree(o_tmp, o_temp_dir) ELSE o_tmp
    /\ o_pc' = CASE o_pending = "return" -> "returned"
                 [] o_pending = "raise" -> "raised"
                 [] OTHER -> "format"
    /\ UNCHANGED <<offframe, o_calls, o_name, o_temp_dir, o_made, o_pending, o_n, o_result>>

\* 4. Format the report; return result_str
OfflineFormat ==
    /\ o_pc = "format"
    /\ o_result' = offline_report(o_name, o_n)
    /\ o_pc' = "returned"
    /\ UNCHANGED <<offframe, o_calls, o_name, o_temp_dir, o_tmp, o_made, o_pending, o_n>>

\* ========================================================= self_update.py
updframe == <<oldvars, entryvars, stopvars, offvars>>

\* calls of check_for_updates in one run of the program
MaxChecks == 2
\* chunks of a download
MaxChunks == 2

\* constants.VERSION
VERSION == "1.0.8"

\* version strings, in the order dpkg --compare-versions gives them
Versions == <<"1.0.7", "1.0.8", "1.0.9">>

RankOf(v) == CHOOSE i \in DOMAIN Versions : Versions[i] = v

\* compare_versions(v1, 'gt', v2): True when dpkg exits with 0; a dpkg that
\* cannot be run makes it False
compare_versions_gt(v1, v2, dpkg_runs) == dpkg_runs /\ RankOf(v1) > RankOf(v2)

\* subprocess.call for subprocess.check_call: the exit status is not looked at
check_call_ignoring_status(found, rc) ==
    IF ~found THEN "FileNotFoundError" ELSE "returned"

\* subprocess.check_call: returns for exit status 0, raises CalledProcessError
\* for any other, FileNotFoundError when the program is not there
check_call(found, rc) ==
    IF ~found THEN "FileNotFoundError"
    ELSE IF rc = 0 THEN "returned" ELSE "CalledProcessError"

\* check_for_updates up to "3. Compare versions": the installed version or
\* VERSION, and _get_latest_release_info(), (None, None) on every failure
UpdCheck ==
    /\ su_pc \in {"idle", "done"}
    /\ su_checks < MaxChecks
    /\ su_checks' = su_checks + 1
    /\ su_log' = <<>>
    /\ su_left' = 0
    /\ su_canceled' = FALSE
    /\ su_deb_path' = FALSE
    /\ su_verify' = "none"
    /\ su_gpg' = NoGpg
    /\ \E installed \in {""} \cup {Versions[i] : i \in DOMAIN Versions},
          latest \in {""} \cup {Versions[i] : i \in DOMAIN Versions} :
          /\ su_current' = IF installed = "" THEN VERSION ELSE installed
          /\ su_latest' = latest
          /\ IF latest = ""
             THEN su_box' = "Update Check Failed" /\ su_pc' = "done"
             ELSE su_pc' = "compare" /\ UNCHANGED su_box
    /\ UNCHANGED <<updframe, su_launched>>

\* if compare_versions(latest_version, 'gt', current_version): the question
\* is asked; else: "Up to Date"
UpdCompare ==
    /\ su_pc = "compare"
    /\ \E dpkg_runs \in BOOLEAN :
          IF compare_versions_gt(su_latest, su_current, dpkg_runs)
          THEN /\ su_log' = Append(su_log, "greater")
               /\ su_box' = "Update Available"
               /\ su_pc' = "ask"
          ELSE /\ su_box' = "Up to Date"
               /\ su_pc' = "done"
               /\ UNCHANGED su_log
    /\ UNCHANGED <<updframe, su_checks, su_current, su_latest, su_left, su_canceled,
                   su_deb_path, su_verify, su_gpg, su_launched>>

\* reply = QMessageBox.question(...); if reply == QMessageBox.Yes:
UpdAnswer ==
    /\ su_pc = "ask"
    /\ \E yes \in BOOLEAN :
          IF yes
          THEN su_log' = Append(su_log, "confirmed") /\ su_pc' = "request"
          ELSE su_pc' = "done" /\ UNCHANGED su_log
    /\ UNCHANGED <<updframe, su_checks, su_current, su_latest, su_left, su_canceled,
                   su_deb_path, su_verify, su_gpg, su_launched, su_box>>

\* _download_package: the progress dialog, requests.get, raise_for_status;
\* an exception shows "Download Error" and returns None
UpdRequest ==
    /\ su_pc = "request"
    /\ \/ \E n \in 0..MaxChunks :
             /\ su_left' = n
             /\ su_pc' = "chunks"
             /\ UNCHANGED su_box
       \/ /\ su_box' = "Download Error"
          /\ su_pc' = "done"
          /\ UNCHANGED su_left
    /\ UNCHANGED <<updframe, su_checks, su_current, su_latest, su_canceled, su_deb_path,
                   su_verify, su_gpg, su_log, su_launched>>

\* the "Cancel" button of the progress dialog
UpdCancelClick ==
    /\ su_pc = "chunks"
    /\ ~su_canceled
    /\ su_canceled' = TRUE
    /\ UNCHANGED <<updframe, su_pc, su_checks, su_current, su_latest, su_left, su_deb_path,
                   su_verify, su_gpg, su_log, su_launched, su_box>>

\* for chunk in response.iter_content(...): wasCanceled() is tested for each
\* chunk that arrived; the chunk is written, or the write or the read raises;
\* after the last chunk: return temp_path
UpdChunk ==
    /\ su_pc = "chunks"
    /\ IF su_left = 0
       THEN /\ su_deb_path' = TRUE
            /\ su_log' = Append(su_log, "downloaded")
            /\ su_pc' = "verify"
            /\ UNCHANGED <<su_left, su_box>>
       ELSE IF su_canceled
            THEN /\ su_pc' = "done"
                 /\ UNCHANGED <<su_left, su_deb_path, su_log, su_box>>
            ELSE \/ /\ su_left' = su_left - 1
                    /\ UNCHANGED <<su_pc, su_deb_path, su_log, su_box>>
                 \/ /\ su_box' = "Download Error"
                    /\ su_pc' = "done"
                    /\ UNCHANGED <<su_left, su_deb_path, su_log>>
    /\ UNCHANGED <<updframe, su_checks, su_current, su_latest, su_canceled, su_verify,
                   su_gpg, su_launched>>

\* if deb_path: try: subprocess.check_call(['gpg', '--verify', deb_path]);
\* except subprocess.CalledProcessError: "Update Failed". FileNotFoundError
\* has no clause and leaves check_for_updates
UpdVerify ==
    /\ su_pc = "verify"
    /\ su_deb_path
    /\ \E found \in BOOLEAN, rc \in 0..2 :
          LET outcome == check_call(found, rc)
          IN /\ su_verify' = outcome
             /\ su_gpg' = [found |-> found, rc |-> rc]
             /\ CASE outcome = "returned" ->
                       /\ su_log' = Append(su_log, "verified")
                       /\ su_pc' = "install"
                       /\ UNCHANGED su_box
                  [] outcome = "CalledProcessError" ->
                       /\ su_box' = "Update Failed"
                       /\ su_pc' = "done"
                       /\ UNCHANGED su_log
                  [] OTHER ->
                       /\ su_pc' = "raised"
                       /\ UNCHANGED <<su_log, su_box>>
    /\ UNCHANGED <<updframe, su_checks, su_current, su_latest, su_left, su_canceled,
                   su_deb_path, su_launched>>

\* _install_update: "Starting Update", QProcess.startDetached("/bin/sh",
\* ["-c", "pkexec dpkg -i <deb_path>"]), QApplication.instance().quit()
UpdInstall ==
    /\ su_pc = "install"
    /\ su_box' = "Starting Update"
    /\ su_launched' = TRUE
    /\ su_log' = Append(su_log, "launched")
    /\ su_pc' = "quit"
    /\ UNCHANGED <<updframe, su_checks, su_current, su_latest, su_left, su_canceled,
                   su_deb_path, su_verify, su_gpg>>

\* ============================================================ specification
vars == <<wizvars, taskvars, extvars>>

Next ==
    \/ Show
    \/ SummaryWorkerRun
    \/ OnInfoLoaded
    \/ ScanWorkerRun
    \/ OnScanDone
    \/ ToggleForce
    \/ SelectExtractDir
    \/ UserNext
    \/ UserBack
    \/ PromptAnswer
    \/ WorkerLaunch
    \/ WorkerReadLine
    \/ WorkerReadEOF
    \/ WorkerReadRaises
    \/ WorkerWait
    \/ WorkerCleanupLaunch
    \/ WorkerCleanupWait
    \/ WorkerExcept
    \/ OrphanExit
    \/ OnProgress
    \/ DoneInstall
    \/ DoneUninstall

Spec == Init /\ [][Next]_vars

\* the pages of an InstallWizard before the operation (no extraction, no
\* shortcut, no saved credential); the owner of the wizard may hide it and
\* show it again
InitShow ==
    /\ Init
    /\ kind = "install"
    /\ ~is_extract_mode
    /\ ~is_create_shortcut_mode
    /\ saved_password = "none"
    /\ auto_enabled = FALSE

NextShow ==
    \/ Show
    \/ Hide
    \/ SummaryWorkerRun
    \/ StaleSummaryRun
    \/ OnInfoLoaded
    \/ ScanWorkerRun
    \/ StaleScanRun
    \/ OnScanDone
    \/ ToggleForce
    \/ UserNext
    \/ UserBack

SpecShow == InitShow /\ [][NextShow]_vars

\* ------------------------------------------- two wizards, one QSettings
\* what an action of the two wizards leaves alone
sharedframe == <<escvars, cancelvars, scanfnvars, prepvars, latevars, taskvars, wizvars>>

\* GeneralSettingsWidget.on_auto_password_clicked: checking the box saves
\* the password that was typed (it is not tried), unchecking clears it
SettingsClicked ==
    /\ IF ~sh_store.auto
       THEN \E pw \in Passwords : sh_store' = [password |-> pw, auto |-> TRUE]
       ELSE sh_store' = [password |-> "none", auto |-> FALSE]
    /\ UNCHANGED <<sharedframe, sh_pc, sh_password, sh_used_saved, sh_rc, sh_submitted>>

\* _execute_operation: read the store, start the worker or ask
SharedExecute ==
    \E i \in Instances :
        /\ sh_pc[i] = "idle"
        /\ IF sh_store.auto /\ sh_store.password # "none"
           THEN /\ sh_pc' = [sh_pc EXCEPT ![i] = "running"]
                /\ sh_password' = [sh_password EXCEPT ![i] = sh_store.password]
                /\ sh_used_saved' = [sh_used_saved EXCEPT ![i] = TRUE]
                /\ sh_submitted' = IF sh_store.password # CorrectPassword
                                   THEN sh_submitted \cup {i}
                                   ELSE sh_submitted
           ELSE /\ sh_pc' = [sh_pc EXCEPT ![i] = "prompt"]
                /\ UNCHANGED <<sh_password, sh_used_saved, sh_submitted>>
        /\ UNCHANGED <<sharedframe, sh_store, sh_rc>>

\* _ask_password_and_execute: no password goes back, a password starts the worker
SharedPrompt ==
    \E i \in Instances, pw \in Passwords \cup {"none"} :
        /\ sh_pc[i] = "prompt"
        /\ IF ~prompt_starts_worker(pw)
           THEN /\ sh_pc' = [sh_pc EXCEPT ![i] = "idle"]
                /\ UNCHANGED <<sh_password, sh_used_saved>>
           ELSE /\ sh_pc' = [sh_pc EXCEPT ![i] = "running"]
                /\ sh_password' = [sh_password EXCEPT ![i] = pw]
                /\ sh_used_saved' = [sh_used_saved EXCEPT ![i] = FALSE]
        /\ UNCHANGED <<sharedframe, sh_store, sh_rc, sh_submitted>>

\* the worker: sudo -S reads the password and rejects it or runs the backend
SharedWorker ==
    \E i \in Instances :
        /\ sh_pc[i] = "running"
        /\ sh_pc' = [sh_pc EXCEPT ![i] = "result"]
        /\ sh_rc' = [sh_rc EXCEPT ![i] = IF sh_password[i] = CorrectPassword
                                           THEN "done" ELSE "rejected"]
        /\ UNCHANGED <<sharedframe, sh_store, sh_password, sh_used_saved, sh_submitted>>

\* done(): success ends the operation; a password error clears the store
\* when the saved password was used, and asks again
SharedDone ==
    \E i \in Instances :
        /\ sh_pc[i] = "result"
        /\ IF sh_rc[i] = "rejected"
           THEN /\ sh_pc' = [sh_pc EXCEPT ![i] = "prompt"]
                /\ sh_store' = IF sh_used_saved[i]
                               THEN [password |-> "none", auto |-> FALSE]
                               ELSE sh_store
           ELSE /\ sh_pc' = [sh_pc EXCEPT ![i] = "finished"]
                /\ UNCHANGED sh_store
        /\ UNCHANGED <<sharedframe, sh_password, sh_used_saved, sh_rc, sh_submitted>>

InitShared == InitShow

\* --- the wizards up to the start of the first attempt, over every content
\* --- of the settings file
InitCred ==
    /\ InitWizard
    /\ saved_password \in {"none", Garbled} \cup Passwords
    /\ auto_enabled \in BOOLEAN

NextCred ==
    \/ Show
    \/ SummaryWorkerRun
    \/ OnInfoLoaded
    \/ ScanWorkerRun
    \/ OnScanDone
    \/ ToggleForce
    \/ SelectExtractDir
    \/ UserNext
    \/ UserBack
    \/ PromptAnswer

SpecCred == InitCred /\ [][NextCred]_vars

\* --- both wizards with a backend that prints percentages
InitProgress ==
    /\ InitWizard
    /\ is_create_shortcut_mode = FALSE
    /\ saved_password = "none"
    /\ auto_enabled = FALSE

NextProgress == Next \/ WorkerReadPercentLine

SpecProgress == InitProgress /\ [][NextProgress]_vars

\* --- main.py: from the command line to the wizard and the start of its
\* --- worker
InitMain ==
    /\ InitWizard
    /\ saved_password = "none"
    /\ auto_enabled = FALSE

\* wiz.exec_() of the wizard that main.py created
MainWizardExec ==
    /\ m_wizard = kind
    /\ Show

NextMain ==
    \/ MainUninstallOption
    \/ ProcessDebFile
    \/ MainAnswer
    \/ MainWizardExec
    \/ UserNext
    \/ PromptAnswer

SpecMain == InitMain /\ [][NextMain]_vars

\* --- install() and uninstall() with stop() called at any moment
InitStop == InitMain

NextStop ==
    \/ StopFlagCleared
    \/ StopLaunch
    \/ StopCheck
    \/ StopRead
    \/ StopHelperExits
    \/ StopWait
    \/ StopCleanupLaunch
    \/ StopLeftovers

SpecStop == InitStop /\ [][NextStop]_vars

NextShared ==
    \/ SettingsClicked
    \/ SharedExecute
    \/ SharedPrompt
    \/ SharedWorker
    \/ SharedDone

SpecShared == InitShared /\ [][NextShared]_vars

\* one WorkerThread, its worker function, its subprocess and its caller
InitTask ==
    /\ kind = "install"
    /\ is_extract_mode = FALSE
    /\ is_create_shortcut_mode = FALSE
    /\ saved_password = "none"
    /\ auto_enabled = FALSE
    /\ Init

NextTask ==
    \/ TaskStart
    \/ FnEmitProgress
    \/ FnLaunch
    \/ FnEnds
    \/ RunEmitResult
    \/ ProcExits
    \/ TaskDeliver
    \/ StopCall
    \/ StopKillpg
    \/ StopProcWait
    \/ StopKill9
    \/ StopThreadWait

SpecTask == InitTask /\ [][NextTask]_vars

\* the install worker function in a WorkerThread, and a caller that may stop it
InitCancel == InitTask

NextCancel ==
    \/ TaskStart
    \/ CancelLaunch
    \/ HelperPrint
    \/ HelperExits
    \/ HelperDies
    \/ CancelCheck
    \/ CancelRead
    \/ CancelReadEOF
    \/ CancelWait
    \/ RunEmitResult
    \/ StopCall
    \/ StopThreadWait
    \/ CancelDeliver

\* both threads and the event loop keep running, and a signalled helper dies;
\* nothing obliges the helper to print, nor the caller to call stop()
CancelFairness ==
    /\ WF_vars(TaskStart)
    /\ WF_vars(CancelLaunch)
    /\ WF_vars(HelperDies)
    /\ WF_vars(CancelCheck)
    /\ WF_vars(CancelRead)
    /\ WF_vars(CancelReadEOF)
    /\ WF_vars(CancelWait)
    /\ WF_vars(RunEmitResult)
    /\ WF_vars(StopThreadWait)
    /\ WF_vars(CancelDeliver)

SpecCancel == InitCancel /\ [][NextCancel]_vars /\ CancelFairness

\* InstallWizard on the Security Scan page, the summary loaded, do_scan started
InitScan ==
    /\ kind = "install"
    /\ is_extract_mode = FALSE
    /\ is_create_shortcut_mode = FALSE
    /\ page = InstallScanPage
    /\ shown = TRUE
    /\ summary_loaded = TRUE
    /\ scan_finished = FALSE
    /\ scan_status = "none"
    /\ force_checked = FALSE
    /\ force_visible = FALSE
    /\ result_visible = FALSE
    /\ extract_path_set = FALSE
    /\ back_enabled = FALSE
    /\ next_enabled = FALSE
    /\ saved_password = "none"
    /\ auto_enabled = FALSE
    /\ used_saved_password = FALSE
    /\ dialog = "none"
    /\ summary_worker = "finished"
    /\ scan_worker = "running"
    /\ worker = IdleWorker
    /\ mainQ = <<>>
    /\ progress = -1
    /\ found_leftover_files = FALSE
    /\ crashed = FALSE
    /\ orphans = 0
    /\ last_result = <<>>
    /\ last_class = {}
    /\ last_acts = {}
    /\ shortcut_created = FALSE
    /\ extracted = FALSE
    /\ cred_rejected = FALSE
    /\ wrote_rejected = FALSE
    /\ after_saved_reject = FALSE
    /\ TaskInit
    /\ ExtInit

NextScan ==
    \/ ScanBegin
    \/ ScanHashBlock
    \/ ScanStop
    \/ ScanLookup
    \/ ScanOffline
    \/ ScanOnDone
    \/ ToggleForce

SpecScan == InitScan /\ [][NextScan]_vars

TypeOK ==
    /\ page \in -1..6
    /\ AliveHelpers \in 0..(MaxOrphans + 1)
    /\ worker.n <= MaxLines

\* ================================================================= claims
\* the text has a line (terminated by LF) that begins with the backend marker
MarkerLineIn(out) ==
    \E i \in DOMAIN out : out[i] = backend_error_prefix /\ (i = 1 \/ out[i - 1] = LF)

\* the text contains one of the four phrases, in any letter case
PhraseSpellings ==
    {"sorry, try again", "Sorry, try again", "authentication failed", "Authentication failed",
     "incorrect password", "incorrect authentication"}

ContainsPhraseCI(out) == \E i \in DOMAIN out : out[i] \in PhraseSpellings

ScanGateOpen ==
    /\ scan_finished
    /\ \/ scan_status = "clean"
       \/ scan_status \in {"danger", "suspicious", "error"} /\ force_checked

\* C1: in InstallWizard the install worker runs (and the Security Scan page
\* has been left) only if the scan has finished and the status is clean, or
\* it is danger / suspicious / error and "install anyway" is checked; until
\* then Next is disabled on page 1, and a non-clean verdict is shown.
C1_ScanGatesInstall ==
    kind = "install" =>
        /\ (page # InstallScanPage \/ worker.st = "running") => ScanGateOpen
        /\ (page = InstallScanPage /\ ~ScanGateOpen) => ~next_enabled
        /\ (scan_finished /\ scan_status # "clean") => (result_visible /\ force_visible)

C1_Witness ==
    /\ kind = "install"
    /\ worker.st = "running"
    /\ worker.proc = "alive"
    /\ scan_status = "danger"
    /\ force_checked

\* C2: after the saved credential is rejected, the store is empty and the
\* automatic credential is off while the retry prompt is open, and a later
\* attempt of that operation that ends with exit code 0 (no backend marker)
\* leaves the wizard on the page after the progress page (cleanup or success).
C2_PurgeThenSuccess ==
    /\ (dialog = "auth_retry" /\ used_saved_password)
          => (saved_password = "none" /\ ~auto_enabled)
    /\ (/\ after_saved_reject
        /\ last_result # <<>>
        /\ last_result[1].rc = 0
        /\ ~MarkerLineIn(last_result[1].out))
          => page \in (IF kind = "install" THEN {InstallSuccessPage}
                       ELSE {UninstallCleanupPage, UninstallSuccessPage})

\* C3: a result whose output has a line beginning with the backend marker,
\* whatever its exit code, is handled as a failure: done() does not change
\* the page, opens no password prompt, creates no shortcut, starts no
\* extraction and leaves the credential store alone.
C3_MarkerIsFailure ==
    [][ (/\ HeadIs("op", {"result"})
         /\ mainQ' = Tail(mainQ)
         /\ MarkerLineIn(Head(mainQ).p.out))
        => (/\ page' = page
            /\ dialog' = dialog
            /\ shortcut_created' = shortcut_created
            /\ extracted' = extracted
            /\ saved_password' = saved_password
            /\ last_acts' = {"critical_box"}
            /\ back_enabled') ]_vars

C3_Witness ==
    /\ last_result # <<>>
    /\ last_result[1].rc = 0
    /\ MarkerLineIn(last_result[1].out)
    /\ page = ProgressPage
    /\ last_acts = {"critical_box"}

\* C4 as stated: done() takes exactly one of the four branches; password-retry
\* iff no marker line, exit code non-zero and a phrase (any case) in the
\* output; exit code 0 never gives password-retry; a non-zero exit code
\* without a phrase gives generic failure.
C4_Original ==
    last_result # <<>> =>
        LET rc == last_result[1].rc
            out == last_result[1].out
        IN /\ Cardinality(last_class) = 1
           /\ last_class \subseteq {"backend", "success", "retry", "generic"}
           /\ ("retry" \in last_class)
                 <=> (~MarkerLineIn(out) /\ rc # 0 /\ ContainsPhraseCI(out))
           /\ (rc = 0) => ("retry" \notin last_class)
           /\ (rc # 0 /\ ~ContainsPhraseCI(out)) => ("generic" \in last_class)

\* C4 amended: as C4, but a non-zero exit code without a phrase gives generic
\* failure only when the output has no backend-marker line (with a marker
\* line the backend-failure branch is taken).
C4_Classification ==
    last_result # <<>> =>
        LET rc == last_result[1].rc
            out == last_result[1].out
        IN /\ Cardinality(last_class) = 1
           /\ last_class \subseteq {"backend", "success", "retry", "generic"}
           /\ ("retry" \in last_class)
                 <=> (~MarkerLineIn(out) /\ rc # 0 /\ ContainsPhraseCI(out))
           /\ (rc = 0) => ("retry" \notin last_class)
           /\ (rc # 0 /\ ~ContainsPhraseCI(out) /\ ~MarkerLineIn(out))
                 => ("generic" \in last_class)

C4_Witness ==
    /\ last_result # <<>>
    /\ last_result[1].rc # 0
    /\ "Sorry, try again" \in {last_result[1].out[i] : i \in DOMAIN last_result[1].out}
    /\ last_class = {"retry"}
    /\ dialog = "auth_retry"

\* C5: a credential that sudo has rejected is not written to the stdin of a
\* further helper process unless the user was prompted again in between.
C5_NoReuseOfRejected == ~wrote_rejected

\* C6: at most one privileged helper process started by the wizard is
\* running at any time.
C6_OneHelperAlive == AliveHelpers <= 1

\* ---------------------------------------------------------- WorkerThread
\* C7: a started WorkerThread emits result exactly once, when run() ends:
\* never before the function has ended, never twice, with the value the
\* function returned or the exception it raised; no exception leaves run().
C7_ResultExactlyOnce ==
    /\ Len(t_result_emits) <= 1
    /\ t_thread \in {"created", "running", "fn_done"} => t_result_emits = <<>>
    /\ t_thread = "finished" => t_result_emits = <<t_outcome.val>>
    /\ ~t_unhandled

C7_Witness ==
    /\ t_thread = "finished"
    /\ t_outcome.kind = "raise"
    /\ t_result_emits = <<"error">>
    /\ t_results = <<"error">>

\* C8: the caller receives the progress events in the order of emission
\* with none missing: what it has received is always a prefix of what was
\* emitted, it has received every progress event when it receives the
\* result, and once the queue is empty after run() nothing is outstanding.
C8_ProgressInOrderThenResult ==
    /\ IsPrefix(t_recv, t_emitted)
    /\ t_results # <<>> => t_recv = t_emitted
    /\ (t_thread = "finished" /\ t_q = <<>>)
          => (t_recv = t_emitted /\ t_results = t_result_emits)

C8_Witness ==
    /\ Len(t_emitted) >= 2
    /\ t_recv = t_emitted
    /\ t_results = <<"value">>

\* C9: once stop() has returned, run() has finished, and after that the
\* worker function runs no step and the thread emits nothing.
C9_StopReturnsAfterRun ==
    /\ t_stop = "returned" => t_thread = "finished"
    /\ ~t_late_activity

C9_Witness ==
    /\ t_stop = "returned"
    /\ ~t_stop_after_delivery
    /\ t_emitted # <<>>
    /\ t_result_emits # <<>>
    /\ t_q # <<>>

\* C10: a stop() called after the result was delivered sends no signal to a
\* process and does not wait for one.
C10_StopAfterDeliveryIsNoop ==
    t_stop_after_delivery =>
        /\ t_sigs = <<>>
        /\ t_stop \notin {"killpg", "proc_wait", "kill9"}

\* C12: stop() with a registered, running subprocess sends SIGTERM to the
\* group first, and when the 5-second wait runs out with the subprocess
\* still alive it then sends SIGKILL; SIGKILL never comes before SIGTERM.
C12_TermThenKill ==
    /\ (t_sigs # <<>>) => (t_sigs[1] = SIGTERM)
    /\ (t_timed_out /\ t_stop \in {"wait", "returned"}) => (t_sigs = <<SIGTERM, SIGKILL>>)

\* C11: when stop() is called while the helper (a command that does not end
\* by itself) is running, stop() eventually returns and the result the
\* worker emitted carries the terminated-by-signal exit code.
C11_StopEndsTheHelper ==
    (t_stop = "wait" /\ c_helper = "alive" /\ c_endless)
        ~> (/\ t_stop = "returned"
            /\ t_result_emits # <<>>
            /\ t_result_emits[1].rc = TerminatedRc)

\* C13: the helper runs in a process group other than the installer's and
\* is registered with the task, and every signal the cancellation sends
\* goes to that group, not to the immediate child alone.
C13_HelperGroupSignalled ==
    /\ c_helper # "none" => (c_pgid # InstallerGroup /\ t_registered)
    /\ \A i \in DOMAIN c_sent : c_sent[i].to = "group"

\* C14: a delivered result with the terminated-by-signal exit code is not
\* handled by done() as a generic failure, a password retry or a success.
C14_CancelledIsNotFailure ==
    (t_results # <<>> /\ t_results[1].rc = TerminatedRc)
        => (c_class \cap {"generic", "retry", "success"} = {})

\* C15: when a credential prompt (first or retry) closes, either a worker
\* is started with the credential that was typed, or (no credential) no
\* worker is started, no helper is launched, nothing is queued, and the
\* wizard is back on the page before the progress page with no prompt open.
C15_NoCredentialNoWorker ==
    [][ (dialog \in {"auth", "auth_retry"} /\ dialog' # dialog)
        => \/ /\ worker'.st = "running"
              /\ worker'.password \in Passwords
              /\ page' = page
           \/ /\ worker' = worker
              /\ worker.st # "running"
              /\ AliveHelpers' = AliveHelpers
              /\ mainQ' = mainQ
              /\ dialog' = "none"
              /\ page = ProgressPage
              /\ page' = PrevPage(ProgressPage) ]_vars

C15_Witness ==
    /\ last_acts = {"prompt"}
    /\ dialog = "none"
    /\ worker.st = "finished"
    /\ worker.proc # "alive"
    /\ page = PrevPage(ProgressPage)

\* ------------------------------------------------------------ the scan
\* the text has a line "Result: " followed by the given keyword and detail
HasResultLine(text, verdict, detail) ==
    \E i \in DOMAIN text :
        /\ i + 2 <= Len(text)
        /\ text[i] = "Result: "
        /\ text[i + 1] = verdict
        /\ text[i + 2] = detail

IsOfflineResult(r) ==
    /\ ~r.exc
    /\ r.text # <<>>
    /\ r.text[1] \in {"Offline Scan Failed for: ", "Offline Scan Complete for: "}

\* C16: when the lookup answers 404, scan_with_virustotal has returned the
\* Suspicious "not found in database" report and scan_offline was not called.
C16_NotFoundIsSuspicious ==
    (s_lookup.kind = "response" /\ s_lookup.code = 404) =>
        /\ s_pc \in {"returned", "done"}
        /\ ~s_result.exc
        /\ HasResultLine(s_result.text, "SUSPICIOUS", " (File not found in VirusTotal database)")
        /\ s_offline_calls = 0
        /\ s_extract = "none"

C16_Witness ==
    /\ s_lookup.kind = "response"
    /\ s_lookup.code = 404
    /\ s_pc = "done"
    /\ scan_status = "suspicious"
    /\ s_offline_calls = 0

\* a connection error, a timeout, or a status outside 200..299 other than 404
TransportFailure(l) ==
    \/ l.kind \in {"connection_error", "timeout"}
    \/ l.kind = "response" /\ ~(l.code >= 200 /\ l.code < 300) /\ l.code # 404

\* C17: after a transport failure of the lookup, scan_offline has been
\* called exactly once and the scan result is the heuristic scan's result,
\* not an exception.
C17_TransportFailureFallsBack ==
    (TransportFailure(s_lookup) /\ s_pc \in {"returned", "raised", "done"}) =>
        /\ s_offline_calls = 1
        /\ IsOfflineResult(s_result)

\* C18: for a found report the wizard's status is danger iff malicious > 0,
\* suspicious iff malicious = 0 and suspicious > 0, clean iff both are 0,
\* and the reported total is malicious + suspicious + harmless + undetected.
C18_StatusFromCounts ==
    (s_body = "report" /\ s_pc = "done") =>
        /\ (scan_status = "danger") <=> (s_stats.malicious > 0)
        /\ (scan_status = "suspicious") <=> (s_stats.malicious = 0 /\ s_stats.suspicious > 0)
        /\ (scan_status = "clean") <=> (s_stats.malicious = 0 /\ s_stats.suspicious = 0)
        /\ s_result.den = s_stats.malicious + s_stats.suspicious
                          + s_stats.harmless + s_stats.undetected

\* C19: when the extraction failed, the scan result is the "Offline Scan
\* Failed" report (no exception), the wizard's status is error, and Next is
\* enabled only with "install anyway" checked.
C19_ExtractionFailureIsError ==
    (s_extract = "failed" /\ s_pc = "done") =>
        /\ IsOfflineResult(s_result)
        /\ s_result.text[1] = "Offline Scan Failed for: "
        /\ scan_status = "error"
        /\ next_enabled => force_checked

\* chunks made of word characters
WordChunks == {"curl", "icue"}

\* the command stands in the script as a whole word
whole_word(command, content) ==
    \E i \in DOMAIN content :
        /\ content[i] = command
        /\ (i = 1 \/ content[i - 1] \notin WordChunks)
        /\ (i = Len(content) \/ content[i + 1] \notin WordChunks)

\* C20: the heuristic scan reports a command of the list iff the command
\* stands in the maintainer script as a whole word, wherever it stands.
C20_WholeWordFindings ==
    s_extract = "ok" =>
        \A c \in SUSPICIOUS_COMMANDS : (c \in s_findings) <=> whole_word(c, s_script)

\* the install path lies inside /home, /root, /tmp or /var/tmp
InsideSensitiveRoot(parts) ==
    \/ Len(parts) >= 2 /\ parts[1] \in {<<"home">>, <<"root">>, <<"tmp">>}
    \/ Len(parts) >= 3 /\ parts[1] = <<"var">> /\ parts[2] = <<"tmp">>

\* C21: every entry of the extracted tree outside the top-level DEBIAN
\* directory has a suspicious-location finding iff its install path lies
\* inside /home, /root, /tmp or /var/tmp (sharing a prefix with such a
\* root is not enough), and has at most one such finding.
C21_LocationFindings ==
    s_extract = "ok" =>
        \A e \in s_tree :
            e.path[1] # <<"DEBIAN">> =>
                /\ ([what |-> "location", path |-> e.path] \in s_walk)
                       <=> InsideSensitiveRoot(e.path)
                /\ Cardinality({f \in s_walk : f.what = "location" /\ f.path = e.path}) <= 1

\* C22: every regular file of the destination tree with an execute bit has
\* a SUID finding iff its set-user-id bit is set and an SGID finding iff
\* its set-group-id bit is set; a file without execute bit, a directory
\* and a symlink have neither.
C22_SetIdFindings ==
    s_extract = "ok" =>
        \A e \in s_tree :
            e.path[1] # <<"DEBIAN">> =>
                LET regular_exec == e.kind = "file" /\ BitAnd(e.mode, 73) # 0
                IN /\ ([what |-> "SUID", path |-> e.path] \in s_walk)
                          <=> (regular_exec /\ BitAnd(e.mode, 2048) # 0)
                   /\ ([what |-> "SGID", path |-> e.path] \in s_walk)
                          <=> (regular_exec /\ BitAnd(e.mode, 1024) # 0)

C24_StopAbortsTheScan ==
    [][ /\ (~s_is_running /\ s_pc = "hashing" /\ s_left > 0) =>
              (s_pc' = "raised" /\ s_result'.exc /\ s_left' = s_left)
        /\ (~s_is_running /\ s_pc = "offline") => s_pc' # "returned" ]_vars

\* C25: one InstallWizard starts the scan of its file at most once, however
\* it is shown and hidden, whatever pages are visited, and however often
\* the password is asked again.
C25_ScanStartedOnce == scan_starts <= 1

\* C26: when on_info_loaded receives the control information of the
\* package (not an exception), with or without a Depends field, it starts
\* the scan.
C26_InfoLoadedStartsScan ==
    [][ (HeadIs("summary", {"result"}) /\ ~crashed /\ ~Head(mainQ).p.exc
            /\ mainQ' = Tail(mainQ))
           => (scan_starts' = scan_starts + 1 /\ scan_worker' = "running") ]_vars

\* C27: of the wizards that share the credential store, at most one starts
\* a helper with a saved password that the helper rejects.
C27_RejectedCredentialReadOnce == Cardinality(sh_submitted) <= 1

\* ------------------------------------------------------- failed attempts
\* the result has a backend marker line, or a non-zero exit code and no
\* password phrase
FailedAttempt(r) == MarkerLineIn(r.out) \/ (r.rc # 0 /\ ~ContainsPhraseCI(r.out))

\* C28: when done() receives the result of a failed attempt it shows one
\* message box, opens no prompt, starts nothing and enables Back; after
\* that, a worker, a prompt or a helper is started only by the user, from
\* another page than the progress page or by answering the prompt.
C28_FailureSurfacedNotRetried ==
    [][ /\ (HeadIs("op", {"result"}) /\ last_result' = <<Head(mainQ).p>>
                /\ FailedAttempt(Head(mainQ).p))
           => /\ last_acts' \in {{"critical_box"}, {"warning_box"}}
              /\ dialog' = "none"
              /\ worker' = worker
              /\ AliveHelpers' = AliveHelpers
              /\ page' = page
              /\ back_enabled'
        /\ (/\ last_result # <<>>
            /\ FailedAttempt(last_result[1])
            /\ \/ (worker'.st = "running" /\ worker.st # "running")
               \/ (dialog' # "none" /\ dialog = "none")
               \/ AliveHelpers' > AliveHelpers)
           => \/ (UserCanAct /\ page # ProgressPage)
              \/ dialog # "none" ]_vars

\* a generic failure is on display: message box shown, Back enabled
C28_Witness ==
    /\ last_result # <<>>
    /\ last_result[1].rc = 1
    /\ last_class = {"generic"}
    /\ last_acts = {"warning_box"}
    /\ page = ProgressPage
    /\ back_enabled
    /\ dialog = "none"
    /\ worker.st = "finished"

\* C29: a worker function that ends in its except clause returns -1 with
\* the exception text (and no leftover files) as its result, and done()
\* treats that result as a failure: message box, no page switch, no success.
C29_LaunchFailureIsFailure ==
    [][ /\ (WorkerAt({"except"}) /\ worker'.st = "finished")
           => /\ mainQ' # <<>>
              /\ mainQ'[Len(mainQ')].type = "result"
              /\ mainQ'[Len(mainQ')].p.rc = -1
              /\ mainQ'[Len(mainQ')].p.out = ExceptionText
              /\ ~mainQ'[Len(mainQ')].p.left
        /\ (HeadIs("op", {"result"}) /\ last_result' = <<Head(mainQ).p>>
                /\ Head(mainQ).p.rc = -1)
           => /\ "success" \notin last_class'
              /\ "next" \notin last_acts'
              /\ last_acts' = {"warning_box"}
              /\ page' = page
              /\ ~shortcut_created' /\ ~extracted' ]_vars

\* the helper could not be launched and the failure is on display
C29_Witness ==
    /\ last_result = <<[rc |-> -1, out |-> ExceptionText, left |-> FALSE]>>
    /\ last_class = {"generic"}
    /\ last_acts = {"warning_box"}
    /\ worker.proc = "none"
    /\ page = ProgressPage

\* C30: done() answers every result with exactly one of: a switch to the
\* next page, a credential prompt, a failure report; a result with exit
\* code 0 and no backend marker makes the wizard advance.
C30_OneOutcomeAction ==
    last_result # <<>> =>
        LET advance == "next" \in last_acts
            prompt == "prompt" \in last_acts
            report == ~advance /\ last_acts \cap {"critical_box", "warning_box"} # {}
        IN /\ Cardinality({x \in {1, 2, 3} : \/ (x = 1 /\ advance)
                                              \/ (x = 2 /\ prompt)
                                              \/ (x = 3 /\ report)}) = 1
           /\ (last_result[1].rc = 0 /\ ~MarkerLineIn(last_result[1].out)) => advance

\* ------------------------------------------------- start of an attempt
\* the step of _execute_operation: the progress page opens
AttemptStarts == page # ProgressPage /\ page' = ProgressPage

\* C31: when an attempt starts, the stored credential is handed to a worker
\* without a prompt iff automatic authentication is on and the store holds
\* a credential that can be read; otherwise the prompt opens and no worker
\* starts; with automatic authentication off the store is not touched.
C31_SavedCredentialUsedIff ==
    [][ AttemptStarts =>
          /\ IF auto_enabled /\ saved_password \in Passwords
             THEN /\ worker'.st = "running"
                  /\ worker'.password = saved_password
                  /\ used_saved_password'
                  /\ dialog' = "none"
             ELSE /\ dialog' = "auth"
                  /\ worker' = worker
                  /\ worker.st # "running"
          /\ ~auto_enabled => saved_password' = saved_password
          /\ auto_enabled' = auto_enabled ]_vars

\* the stored credential runs the first attempt, no prompt was opened
C31_Witness ==
    /\ page = ProgressPage
    /\ auto_enabled
    /\ saved_password \in Passwords
    /\ used_saved_password
    /\ worker.st = "running"
    /\ worker.password = saved_password
    /\ dialog = "none"

\* C32: no UninstallWizard is run for a package that is_critical_package
\* reports as critical, from either entry point.
C32_CriticalNeverUninstalled ==
    (m_wizard = "uninstall" /\ kind = "uninstall" /\ worker.st = "running")
        => ~is_critical_package(m_pkg)

\* C33: once a read loop of the worker function has found the running flag
\* cleared, the function reads no further line, launches no further helper
\* and writes the password to no further process.
C33_NothingAfterCancelObserved ==
    [][ u_observed => /\ u_reads' = u_reads
                      /\ u_launches' = u_launches
                      /\ u_writes' = u_writes ]_vars

\* ------------------------------------------------ rejected credentials
\* done() handles the result at the head of the queue
DoneHandles == HeadIs("op", {"result"}) /\ last_result' = <<Head(mainQ).p>>

\* C34: a rejected credential that was typed at the prompt leaves the stored
\* password and the automatic setting as they are; the store changes only
\* when done() handles the rejection of the stored password; an attempt
\* started from a prompt has the used-saved flag false.
C34_TypedRejectionKeepsStore ==
    [][ /\ (DoneHandles /\ dialog' = "auth_retry" /\ ~used_saved_password)
           => (saved_password' = saved_password /\ auto_enabled' = auto_enabled)
        /\ (saved_password' # saved_password \/ auto_enabled' # auto_enabled)
           => /\ DoneHandles
              /\ Head(mainQ).p.rc # 0
              /\ ContainsPhraseCI(Head(mainQ).p.out)
              /\ used_saved_password
              /\ worker.password = saved_password
              /\ saved_password' = "none"
              /\ ~auto_enabled'
        /\ (dialog # "none" /\ worker.st # "running" /\ worker'.st = "running")
           => ~used_saved_password' ]_vars

\* a typed password was rejected, the prompt is open again, and the store
\* still holds its password
C34_Witness ==
    /\ dialog = "auth_retry"
    /\ last_acts = {"prompt"}
    /\ ~used_saved_password
    /\ ~after_saved_reject
    /\ saved_password \in Passwords

\* ------------------------------------------------------- progress bar
\* done() has handled a result with exit code 0 and no backend marker
SuccessReceived ==
    last_result # <<>> /\ last_result[1].rc = 0 /\ ~MarkerLineIn(last_result[1].out)

\* C35 as stated: the value of the progress bar is between 0 and 100 in
\* every state, and 100 only after done() received a successful result.
C35_ProgressInRange ==
    /\ progress \in 0..100
    /\ progress = 100 => SuccessReceived

\* C35, amended: until the first attempt starts the bar is in its reset
\* state (value -1); from then on the value is between 0 and 100, and 100
\* only after done() received a successful result, whatever percentage the
\* output lines carry.
C35_ProgressInRangeOnceStarted ==
    /\ progress \in {-1} \cup 0..100
    /\ progress = -1 => (worker.st = "idle" /\ last_result = <<>> /\ page # ProgressPage)
    /\ (page = ProgressPage \/ worker.st # "idle") => progress \in 0..100
    /\ progress = 100 => SuccessReceived

\* a line with 100 % or 150 % was shown as 99 while the helper runs
C35_Witness ==
    /\ progress = 99
    /\ worker.st = "running"
    /\ last_result = <<>>

\* C36: uninstall() reports leftover paths only when the purge exited with
\* 0, and when done() handles a successful result the wizard goes to the
\* cleanup page if leftover paths were reported and to the success page if
\* none were.
C36_LeftoversLeadToCleanupPage ==
    [][ /\ (WorkerAt({"c_wait"}) /\ worker'.st = "finished"
                /\ mainQ'[Len(mainQ')].p.left)
           => worker.purge_rc = 0
        /\ (kind = "uninstall" /\ DoneHandles /\ Head(mainQ).p.rc = 0
                /\ ~MarkerLineIn(Head(mainQ).p.out))
           => page' = IF Head(mainQ).p.left THEN UninstallCleanupPage
                      ELSE UninstallSuccessPage ]_vars

\* the report's result line gives the verdict Clean
StatesClean(text) ==
    \E i \in DOMAIN text : i + 1 <= Len(text) /\ text[i] = "Result: " /\ text[i + 1] = "Clean"

\* C37: whatever the scan worker delivered, on_done has marked the scan
\* finished and set the status to one of clean, suspicious, danger, error;
\* an exception gives error, and clean is given only to a report whose
\* result line says Clean.
C37_EveryResultClassified ==
    s_pc = "done" =>
        /\ scan_finished
        /\ scan_status \in {"clean", "suspicious", "danger", "error"}
        /\ s_result.exc => scan_status = "error"
        /\ scan_status = "clean" => (~s_result.exc /\ StatesClean(s_result.text))


\* ---------------------------------------------------------------------
\* scan_offline called one time after another
InitOffline == InitMain

NextOffline ==
    \/ OfflineMkdtemp
    \/ OfflineExtract
    \/ OfflineAnalyze
    \/ OfflineFinally
    \/ OfflineFormat

SpecOffline == InitOffline /\ [][NextOffline]_vars

InitUpdate == InitMain

NextUpdate ==
    \/ UpdCheck
    \/ UpdCompare
    \/ UpdAnswer
    \/ UpdRequest
    \/ UpdCancelClick
    \/ UpdChunk
    \/ UpdVerify
    \/ UpdInstall

SpecUpdate == InitUpdate /\ [][NextUpdate]_vars

\* C39: the detached "pkexec dpkg -i" run is launched only by a call of
\* check_for_updates that went, in this order, through: the latest version
\* compared greater than the current one, the user answered Yes, the
\* download returned a path without having seen a cancellation or an error,
\* gpg --verify exited with 0. A verification that failed, or a gpg that
\* could not be run, is never followed by the launch in that call, and the
\* launch happens in no other step than the one after the verification.
C39_InstallOnlyAfterVerification ==
    /\ su_launched =>
          /\ su_log = <<"greater", "confirmed", "downloaded", "verified", "launched">>
          /\ RankOf(su_latest) > RankOf(su_current)
          /\ su_deb_path
          /\ su_left = 0
          /\ su_verify = "returned"
          /\ su_gpg.found /\ su_gpg.rc = 0
          /\ su_pc = "quit"
    /\ su_verify \in {"CalledProcessError", "FileNotFoundError"} =>
          (~su_launched /\ su_pc \in {"done", "raised"})
    /\ (su_verify # "none" /\ ~(su_gpg.found /\ su_gpg.rc = 0)) => ~su_launched

\* the installer was launched for release 1.0.9
C39_Witness ==
    /\ su_launched
    /\ su_pc = "quit"
    /\ su_latest = "1.0.9"
    /\ su_verify = "returned"
====
